---- MODULE Spec2Model ----
(***************************************************************************)
(* A model of LegacyKafkaCheck_0_10_2 (kafka_consumer/legacy_0_10_2.py):   *)
(* one check() cycle after the other, each cycle stepping through          *)
(* consumer-offset discovery in Zookeeper and in Kafka, the context limit, *)
(* the fetch of the broker highwater offsets and the report of the gauges  *)
(* and events.  What the outside world answers (the Zookeeper tree, the    *)
(* cluster metadata, the brokers' responses, failing requests) is chosen   *)
(* nondeterministically at the step that reads it.                         *)
(***************************************************************************)
EXTENDS Integers, Sequences, FiniteSets, Bags, TLC

(***************************************************************************)
(* Bounds of the model                                                     *)
(***************************************************************************)
\* offsets (committed and highwater) range over 0..MaxOffset
MaxOffset == 1

Groups == {"g1", "g2"}
Topics == {"t"}
Partitions == {0, 1}
Brokers == {1, 2}
Offsets == 0..MaxOffset
TopicPartitions == Topics \X Partitions
Triples == Groups \X Topics \X Partitions

(***************************************************************************)
(* Python values                                                           *)
(***************************************************************************)
\* {} : the empty dict
EmptyMap == [k \in {} |-> 0]

\* d[k] = v
Put(d, k, v) == [x \in (DOMAIN d) \cup {k} |-> IF x = k THEN v ELSE d[x]]

\* dict.update(other)
Update(d, other) ==
  [x \in (DOMAIN d) \cup (DOMAIN other) |-> IF x \in DOMAIN other THEN other[x] ELSE d[x]]

\* defaultdict(set)[k].update(s)
AddAll(d, k, s) == Put(d, k, (IF k \in DOMAIN d THEN d[k] ELSE {}) \cup s)

\* a value that may be None: kind is "None" or the value's type
PartsNone == [kind |-> "None", parts |-> {}]
PartsList(S) == [kind |-> "list", parts |-> S]
PartsStr == [kind |-> "str", parts |-> {}]
TopicsNone == [kind |-> "None", topics |-> EmptyMap]
TopicsDict(f) == [kind |-> "dict", topics |-> f]
GroupsNone == [kind |-> "None", groups |-> EmptyMap]
GroupsDict(f) == [kind |-> "dict", groups |-> f]
OffsetsNone == [kind |-> "None", map |-> EmptyMap]
OffsetsDict(f) == [kind |-> "dict", map |-> f]

\* truth value of a dict-or-None / list-or-None
TruthyOffsets(o) == o.kind = "dict" /\ DOMAIN o.map # {}
TruthyTopics(ts) == ts.kind = "dict" /\ DOMAIN ts.topics # {}
TruthyParts(ps) == \/ ps.kind = "str"
                   \/ ps.kind = "list" /\ ps.parts # {}
TruthyGroups(cg) == cg.kind = "dict" /\ DOMAIN cg.groups # {}

(***************************************************************************)
(* The instances the check is configured with                              *)
(***************************************************************************)
\* the 'consumer_groups' of the instances
ConsumerGroupSpecs ==
  { GroupsDict("g1" :> TopicsDict("t" :> PartsList({0, 1}))),
    GroupsDict(("g1" :> TopicsDict("t" :> PartsList({0})))
               @@ ("g2" :> TopicsDict("t" :> PartsList({0})))),
    GroupsDict("g1" :> TopicsDict("t" :> PartsList({}))),
    GroupsDict(("g1" :> TopicsDict("t" :> PartsNone))
               @@ ("g2" :> TopicsDict("t" :> PartsList({0})))),
    GroupsDict("g1" :> TopicsNone),
    GroupsDict("g1" :> TopicsDict("t" :> PartsStr)) }

CustomTagSets == { <<"optional:tag1">> }

\* 'kafka_consumer_offsets' is left out (its default is taken) or set against
\* its default; 'consumer_groups' is left out or one of the specs
Instances ==
  { i \in [ zk_connect_str : BOOLEAN,
            kafka_consumer_offsets : {"unset", "true", "false"},
            monitor_unlisted_consumer_groups : BOOLEAN,
            has_consumer_groups : BOOLEAN,
            consumer_groups : ConsumerGroupSpecs \cup {GroupsNone},
            tags : CustomTagSets ] :
      /\ i.kafka_consumer_offsets # (IF i.zk_connect_str THEN "false" ELSE "true")
      /\ i.has_consumer_groups <=> i.consumer_groups # GroupsNone
      /\ i.monitor_unlisted_consumer_groups => ~i.has_consumer_groups }

VARIABLES
  instance,        \* the instance dict (its consumer_groups dict is shared with the cycle)
  context_limit,   \* self.context_limit
  api_version_ok,  \* self._kafka_client.config.get('api_version') >= (0, 8, 2)
  pc,              \* where check() stands
  error,           \* the exception check() raised, "" if none
  consumer_groups, \* check(): consumer_groups
  zk_consumer_offsets,     \* check(): zk_consumer_offsets
  kafka_consumer_offsets,  \* check(): kafka_consumer_offsets
  topics,          \* check(): topics
  k_todo,          \* _get_kafka_consumer_offsets: the groups still to iterate
  k_offsets,       \* _get_kafka_consumer_offsets: consumer_offsets
  k_topics,        \* _get_kafka_consumer_offsets: topics
  k_lookups,       \* what the coordinator and the fetch answered, per group looked up
  k_interest,      \* _get_single_group_offsets_from_kafka: tps, per group iterated
  leaders,         \* what cluster.leader_for_partition answered, per (topic, partition)
  leader_tp,       \* _get_broker_offsets: leader_tp
  responses,       \* the error code each answered (topic, partition) came back with
  hw_requests,     \* the OffsetRequests sent, in order: [node, tps]
  highwater_offsets,
  topic_partitions_without_a_leader,
  netlog,          \* the network operations of the cycle, in order
  gauges,          \* bag of the gauges submitted in the cycle
  events,          \* bag of the events submitted in the cycle
  warnings,        \* self.warning() calls of the cycle: the counts they name
  zk_conn,         \* _get_zk_consumer_offsets: zk_conn, "none" outside the call
  zk_read,         \* _get_zk_consumer_offsets: what the call in progress read
  zk_store,        \* the Zookeeper tree, where it is followed from cycle to cycle
  zk_prev,         \* the outcome of the call before, where it is followed
  blocking,        \* _make_blocking_req: the call in progress, where it is followed
  metrics,         \* AggregatorStub._metrics
  asserted,        \* AggregatorStub._asserted
  stub_call,       \* AggregatorStub: the last call made and whether it raised
  service_check_needed,  \* MesosMaster.service_check_needed
  m_pc,            \* MesosMaster: where check() stands
  m_leader,        \* MesosMaster.leader
  m_state_ok,      \* MesosMaster: a state endpoint answered 200 in this run
  m_service_checks,  \* MesosMaster: the service checks of this run, in order
  m_version,       \* MesosMaster.version, <<>> before it is first set
  m_requests,      \* MesosMaster: the endpoints requested in this run, in order
  m_error          \* MesosMaster: the exception check() raised, "" if none

vars == << instance, context_limit, api_version_ok, pc, error, consumer_groups,
           zk_consumer_offsets, kafka_consumer_offsets, topics, k_todo, k_offsets, k_topics,
           k_lookups, k_interest,
           leaders, leader_tp, responses, hw_requests, highwater_offsets,
           topic_partitions_without_a_leader, netlog, gauges, events, warnings,
           zk_conn, zk_read, zk_store, zk_prev, blocking, metrics, asserted, stub_call,
           service_check_needed, m_pc, m_leader, m_state_ok, m_service_checks,
           m_version, m_requests, m_error >>

config_vars == << context_limit, api_version_ok >>
kafka_vars == << k_todo, k_offsets, k_topics, k_lookups, k_interest >>
broker_vars == << leaders, leader_tp, responses, hw_requests, highwater_offsets,
                  topic_partitions_without_a_leader >>
output_vars == << gauges, events, warnings >>
zk_vars == << zk_conn, zk_read, zk_store, zk_prev >>
check_vars == << instance, config_vars, zk_vars, pc, error, consumer_groups,
                zk_consumer_offsets, kafka_consumer_offsets, topics, kafka_vars,
                broker_vars, netlog, output_vars >>
req_vars == << blocking >>
stub_vars == << metrics, asserted, stub_call >>
mesos_vars == << service_check_needed, m_pc, m_leader, m_state_ok, m_service_checks,
                 m_version, m_requests, m_error >>

\* init_config's max_partition_contexts: 1 or 2, and 1 when both sources are on
ContextLimits(inst) ==
  IF inst.zk_connect_str /\ inst.kafka_consumer_offsets = "true" THEN {1} ELSE {1, 2}

(***************************************************************************)
(* check(), lines 51-63: the configuration of the cycle                    *)
(***************************************************************************)
\* is_affirmative(instance.get('kafka_consumer_offsets', zk_hosts_ports is None))
GetKafkaConsumerOffsets(inst) ==
  IF inst.kafka_consumer_offsets = "unset"
    THEN ~inst.zk_connect_str
    ELSE inst.kafka_consumer_offsets = "true"

\* _validate_explicit_consumer_groups: TRUE when no assertion fails
ValidateExplicitConsumerGroups(val) ==
  /\ val.kind = "dict"
  /\ \A g \in DOMAIN val.groups :
       LET ts == val.groups[g] IN
       /\ ts.kind \in {"dict", "None"}
       /\ ts.kind = "dict" =>
            \A t \in DOMAIN ts.topics : ts.topics[t].kind \in {"list", "None"}

Raise(exc) ==
  /\ pc' = "raised"
  /\ error' = exc

CheckBegin ==
  /\ pc = "idle"
  /\ IF instance.monitor_unlisted_consumer_groups
       THEN /\ consumer_groups' = GroupsNone
            /\ pc' = "zk"
            /\ error' = error
       ELSE IF instance.has_consumer_groups
         THEN IF ValidateExplicitConsumerGroups(instance.consumer_groups)
                THEN /\ consumer_groups' = instance.consumer_groups
                     /\ pc' = "zk"
                     /\ error' = error
                ELSE /\ Raise("AssertionError")
                     /\ UNCHANGED consumer_groups
         ELSE /\ consumer_groups' = GroupsNone
              /\ pc' = "zk"
              /\ error' = error
  /\ UNCHANGED << req_vars, stub_vars, mesos_vars >>
  /\ UNCHANGED << instance, config_vars, zk_vars, zk_consumer_offsets, kafka_consumer_offsets, topics,
                  kafka_vars, broker_vars, netlog, output_vars >>

(***************************************************************************)
(* _get_zk_consumer_offsets                                                *)
(***************************************************************************)
\* what a leaf <prefix>/consumers/<group>/offsets/<topic>/<partition> holds:
\* no node, a node whose data is no integer, an integer
LeafValues ==
  { [state |-> "absent", value |-> 0], [state |-> "bad", value |-> 0] }
  \cup { [state |-> "ok", value |-> v] : v \in Offsets }

\* the leaves the tree may hold
ZkLeaves == { <<"g1", "t", 0>>, <<"g1", "t", 1>>, <<"g2", "t", 0>> }

\* the topic node that may have a child whose name is no integer
JunkParent == <<"g1", "t">>

\* the tree: its leaves, and whether JunkParent has a child that is no partition id
ZkStores == [leaves : [ZkLeaves -> LeafValues], junk : BOOLEAN]

EmptyStore == [leaves |-> [k \in ZkLeaves |-> [state |-> "absent", value |-> 0]],
               junk |-> FALSE]

\* the paths a call reads: <<>> lists the groups, <<g>> the topics of g,
\* <<g, t>> the partitions of g and t, <<g, t, p>> is a leaf
ZkPaths ==
  {<<>>} \cup { <<g>> : g \in Groups } \cup (Groups \X Topics) \cup ZkLeaves

\* the reads of one call that fail with an exception other than NoNodeError
\* (lines 327 and 392): none or one
ZkFailures == {{}} \cup { {p} : p \in ZkPaths }

\* what one call gets to see: the tree and the reads that fail
ZkSessions(stores) == [store : stores, failing : ZkFailures, read : {TRUE}]

\* what is kept of the session a call read: its tree, and whether no read failed
ZkRead(zk) == [store |-> zk.store, clean |-> zk.failing = {}, read |-> TRUE]

NoSession == [store |-> EmptyStore, clean |-> FALSE, read |-> FALSE]

\* the node of the leaf exists
LeafExists(zk, k) == k \in DOMAIN zk.store.leaves /\ zk.store.leaves[k].state # "absent"

\* zk_conn.get(zk_path) at line 387: "absent" raises NoNodeError, "bad" another
\* exception (the read fails, or int() of the data does)
LeafState(zk, k) ==
  IF ~LeafExists(zk, k) THEN "absent"
  ELSE IF k \in zk.failing THEN "bad"
  ELSE zk.store.leaves[k].state

\* the topic node <g>/offsets/<t> has a child
TopicNodeHasChild(zk, g, t) ==
  \/ \E p \in Partitions : LeafExists(zk, <<g, t, p>>)
  \/ <<g, t>> = JunkParent /\ zk.store.junk

\* _get_zk_path_children on the three levels of the tree: [] when the read fails
ZkGroupChildren(zk) ==
  IF <<>> \in zk.failing THEN {}
  ELSE { g \in Groups : \E t \in Topics : TopicNodeHasChild(zk, g, t) }
ZkTopicChildren(zk, g) ==
  IF <<g>> \in zk.failing THEN {}
  ELSE { t \in Topics : TopicNodeHasChild(zk, g, t) }
ZkPartitionChildren(zk, g, t) ==
  IF <<g, t>> \in zk.failing THEN {}
  ELSE { p \in Partitions : LeafExists(zk, <<g, t, p>>) }

\* the children listed at lines 376-378 hold a name int() raises ValueError on
ZkJunkListed(zk, g, t) ==
  <<g, t>> = JunkParent /\ zk.store.junk /\ <<g, t>> \notin zk.failing

\* lines 354-359
ZkGroupsToInspect(zk, cg) ==
  IF cg.kind = "None"
    THEN [g \in ZkGroupChildren(zk) |-> TopicsNone]
    ELSE cg.groups

\* lines 362-366
ZkTopicsOf(zk, g, ts) ==
  IF ~TruthyTopics(ts)
    THEN [t \in ZkTopicChildren(zk, g) |-> PartsNone]
    ELSE ts.topics

\* the explicit partitions left out
ZkPartitionsOfListedOnly(zk, g, t, ps) ==
  IF TruthyParts(ps) THEN {} ELSE ZkPartitionChildren(zk, g, t)

\* lines 369-379
ZkPartitionsOf(zk, g, t, ps) ==
  IF TruthyParts(ps) THEN ps.parts ELSE ZkPartitionChildren(zk, g, t)

\* lines 376-378: the groups in whose iteration int(x) raises ValueError
ZkRaisingGroups(zk, cg) ==
  LET gs == ZkGroupsToInspect(zk, cg) IN
  { g \in DOMAIN gs :
      LET ts == ZkTopicsOf(zk, g, gs[g]) IN
      \E t \in DOMAIN ts : ~TruthyParts(ts[t]) /\ ZkJunkListed(zk, g, t) }

\* the value line 366 leaves in consumer_groups[g]
ZkResolvedTopics(zk, g, ts) == TopicsDict(ZkTopicsOf(zk, g, ts))

\* the value lines 366 and 379 leave in consumer_groups[g]
ZkResolvedGroup(zk, g, ts0) ==
  LET ts == ZkTopicsOf(zk, g, ts0) IN
  TopicsDict([t \in DOMAIN ts |->
    IF TruthyParts(ts[t]) THEN ts[t] ELSE PartsList(ZkPartitionChildren(zk, g, t))])

\* the consumer_groups dict as the loop leaves it
ZkResolvedGroups(zk, cg) ==
  LET gs == ZkGroupsToInspect(zk, cg) IN
  GroupsDict([g \in DOMAIN gs |-> ZkResolvedGroup(zk, g, gs[g])])

\* the consumer_groups dict when the iteration of group r raises at line 377,
\* the groups of done iterated before it
ZkPartialGroups(zk, cg, r, done) ==
  LET gs == ZkGroupsToInspect(zk, cg) IN
  GroupsDict([g \in DOMAIN gs |->
    IF g \in done THEN ZkResolvedGroup(zk, g, gs[g])
    ELSE IF g = r THEN ZkResolvedTopics(zk, g, gs[g])
    ELSE gs[g]])

\* lines 382-393: zk_consumer_offsets
ZkOffsets(zk, cg) ==
  LET gs == ZkGroupsToInspect(zk, cg)
      keys == { k \in Triples :
                  /\ k[1] \in DOMAIN gs
                  /\ LET ts == ZkTopicsOf(zk, k[1], gs[k[1]]) IN
                       /\ k[2] \in DOMAIN ts
                       /\ k[3] \in ZkPartitionsOf(zk, k[1], k[2], ts[k[2]])
                  /\ LeafState(zk, k) = "ok" }
  IN [k \in keys |-> zk.store.leaves[k].value]

\* line 352: zk_conn.start() stands outside the try; when it raises no
\* connection was started and the exception leaves check()
ZkStart ==
  /\ pc = "zk"
  /\ IF instance.zk_connect_str
       THEN \E started \in BOOLEAN :
              /\ netlog' = Append(netlog, "zk")
              /\ IF started
                   THEN /\ zk_conn' = "started"
                        /\ pc' = "zk_try"
                        /\ error' = error
                   ELSE /\ Raise("KazooTimeoutError")
                        /\ UNCHANGED zk_conn
       ELSE /\ pc' = "metadata"
            /\ UNCHANGED << netlog, zk_conn, error >>
  /\ UNCHANGED << req_vars, stub_vars, mesos_vars >>
  /\ UNCHANGED << instance, config_vars, consumer_groups, zk_consumer_offsets,
                  kafka_consumer_offsets, topics, kafka_vars, broker_vars, output_vars,
                  zk_read, zk_store, zk_prev >>

\* lines 353-393, the body of the try, reading one of sessions: the writes into
\* consumer_groups reach the instance when the dict is the instance's (line 61);
\* an exception of line 377 is held in error until the finally clause has run
ZkDiscover(sessions) ==
  /\ pc = "zk_try"
  /\ \E zk \in sessions :
       /\ zk_read' = ZkRead(zk)
       /\ IF ZkRaisingGroups(zk, consumer_groups) = {}
            THEN /\ zk_consumer_offsets' = OffsetsDict(ZkOffsets(zk, consumer_groups))
                 /\ consumer_groups' = ZkResolvedGroups(zk, consumer_groups)
                 /\ error' = error
            ELSE \E r \in ZkRaisingGroups(zk, consumer_groups) :
                 \E done \in SUBSET ((DOMAIN ZkGroupsToInspect(zk, consumer_groups))
                                       \ ZkRaisingGroups(zk, consumer_groups)) :
                   /\ consumer_groups' = IF consumer_groups.kind = "dict"
                                           THEN ZkPartialGroups(zk, consumer_groups, r, done)
                                           ELSE consumer_groups
                   /\ error' = "ValueError"
                   /\ UNCHANGED zk_consumer_offsets
  /\ instance' = IF consumer_groups.kind = "dict"
                   THEN [instance EXCEPT !.consumer_groups = consumer_groups']
                   ELSE instance
  /\ pc' = "zk_finally"
  /\ UNCHANGED << req_vars, stub_vars, mesos_vars >>
  /\ UNCHANGED << config_vars, kafka_consumer_offsets, topics, kafka_vars, broker_vars,
                  netlog, output_vars, zk_conn, zk_store, zk_prev >>

\* the tree of a call of check() is whatever Zookeeper holds by then
ZkDiscoverAny == ZkDiscover(ZkSessions(ZkStores))

\* lines 395-399: stop() and close() in one try, what they raise is logged
ZkCleanupOutcomes == {"closed", "stop_raised", "close_raised"}

\* the connection after lines 395-399: close() is not reached when stop() raises
ZkConnAfterCleanup(outcome) ==
  CASE outcome = "closed" -> "closed"
    [] outcome = "stop_raised" -> "started"
    [] outcome = "close_raised" -> "stopped"

\* what the call leaves behind for a later one to be compared with
ZkOutcome ==
  [known |-> TRUE,
   returned |-> error = "",
   clean |-> zk_read.clean,
   offsets |-> zk_consumer_offsets,
   groups |-> consumer_groups]

NoOutcome ==
  [known |-> FALSE, returned |-> FALSE, clean |-> FALSE, offsets |-> OffsetsNone,
   groups |-> GroupsNone]

\* lines 394-399: the finally clause, what it raises is never raised again
ZkStop ==
  /\ pc = "zk_finally"
  /\ \E outcome \in ZkCleanupOutcomes : zk_conn' = ZkConnAfterCleanup(outcome)
  /\ pc' = "zk_return"
  /\ UNCHANGED << req_vars, stub_vars, mesos_vars >>
  /\ UNCHANGED << instance, config_vars, error, consumer_groups, zk_consumer_offsets,
                  kafka_consumer_offsets, topics, kafka_vars, broker_vars, netlog,
                  output_vars, zk_read, zk_store, zk_prev >>

\* line 400 returns, or the exception of the try leaves the call and check();
\* the locals of the call are gone; prev is the record kept of the call
ZkReturnThen(prev) ==
  /\ pc = "zk_return"
  /\ pc' = IF error = "" THEN "metadata" ELSE "raised"
  /\ zk_conn' = "none"
  /\ zk_read' = NoSession
  /\ zk_prev' = prev
  /\ UNCHANGED << req_vars, stub_vars, mesos_vars >>
  /\ UNCHANGED << instance, config_vars, error, consumer_groups, zk_consumer_offsets,
                  kafka_consumer_offsets, topics, kafka_vars, broker_vars, netlog,
                  output_vars, zk_store >>

ZkReturn == ZkReturnThen(zk_prev)

(***************************************************************************)
(* check(), lines 74-91, and _get_kafka_consumer_offsets                   *)
(***************************************************************************)
\* ops: the network operations of the step
RefreshMetadataThen(ops) ==
  /\ pc = "metadata"
  /\ netlog' = netlog \o ops
  /\ IF GetKafkaConsumerOffsets(instance)
       THEN IF ~instance.zk_connect_str /\ ~TruthyGroups(consumer_groups)
              THEN /\ Raise("ConfigurationError")
                   /\ UNCHANGED k_todo
              ELSE IF api_version_ok
                     THEN /\ pc' = "kafka"
                          /\ k_todo' = DOMAIN consumer_groups.groups
                          /\ error' = error
                     ELSE /\ pc' = "fallback"
                          /\ UNCHANGED << k_todo, error >>
       ELSE /\ pc' = "fallback"
            /\ UNCHANGED << k_todo, error >>
  /\ UNCHANGED << req_vars, stub_vars, mesos_vars >>
  /\ UNCHANGED << instance, config_vars, zk_vars, consumer_groups, zk_consumer_offsets,
                  kafka_consumer_offsets, topics, k_offsets, k_topics, k_lookups, k_interest,
                  broker_vars, output_vars >>

\* the highwater offsets requested before the consumer offsets of Kafka are read
RefreshMetadataHighwaterFirst == RefreshMetadataThen(<<"metadata", "OffsetRequest">>)

\* line 74 is the only network operation of these lines
RefreshMetadata == RefreshMetadataThen(<<"metadata">>)

\* kafka_errors.for_code
ForCode(code) ==
  CASE code = 0 -> "NoError"
    [] code = 1 -> "OffsetOutOfRangeError"
    [] code = 3 -> "UnknownTopicOrPartitionError"
    [] code = 6 -> "NotLeaderForPartitionError"
    [] code = 15 -> "GroupCoordinatorNotAvailableError"
    [] OTHER -> "UnknownError"

\* cluster.available_partitions_for_topic, for every topic
AvailablePartitions == [Topics -> SUBSET Partitions]

\* _get_single_group_offsets_from_kafka, lines 435-438: iteritems(None) and
\* len(None) raise before any request is made
SingleGroupRaisesOnSpec(ts) ==
  \/ ts.kind = "None"
  \/ \E t \in DOMAIN ts.topics : ts.topics[t].kind = "None"

SingleGroupNeedsAvailable(ts) ==
  /\ ts.kind = "dict"
  /\ \E t \in DOMAIN ts.topics : ts.topics[t].kind = "list" /\ ts.topics[t].parts = {}

\* lines 434-438: tps, as (topic, partition) pairs
SingleGroupTps(ts, avail) ==
  { tp \in TopicPartitions :
      /\ tp[1] \in DOMAIN ts.topics
      /\ tp[2] \in (IF ts.topics[tp[1]].parts = {} THEN avail[tp[1]]
                                                 ELSE ts.topics[tp[1]].parts) }

\* one entry of an OffsetFetchResponse: (partition, offset, metadata, error_code)
FetchEntries ==
  { [error_code |-> 0, offset |-> o] : o \in Offsets }
  \cup { [error_code |-> 3, offset |-> -1] }

\* lines 447-452: consumer_offsets of the response
SingleGroupOffsets(resp) ==
  LET good == { tp \in DOMAIN resp : ForCode(resp[tp].error_code) = "NoError" }
  IN [tp \in good |-> resp[tp].offset]

\* '<format>' % arg raises TypeError unless the format has one conversion for it
PercentFormatRaises(conversions, nargs) == conversions # nargs

\* line 419: 'Could not read consumer offsets from kafka for group: ' % consumer_group
GroupFailureConversions == 0

LogGroupFailureRaises == PercentFormatRaises(GroupFailureConversions, 1)

\* lines 418-419: the handler of a group whose fetch raised
GroupFailed(g) ==
  IF LogGroupFailureRaises
    THEN /\ Raise("TypeError")
         /\ UNCHANGED k_todo
    ELSE /\ k_todo' = k_todo \ {g}
         /\ UNCHANGED << pc, error >>

\* a GroupCoordinatorResponse: (error_code, coordinator_id, ...)
CoordinatorResponses ==
  { [error_code |-> 0, coordinator_id |-> b] : b \in Brokers }
  \cup { [error_code |-> 15, coordinator_id |-> -1] }

\* _get_group_coordinator, lines 427-429: None unless the error is NoError
GetGroupCoordinator(response) ==
  IF ForCode(response.error_code) = "NoError"
    THEN [isNone |-> FALSE, id |-> response.coordinator_id]
    ELSE [isNone |-> TRUE, id |-> 0]

\* lines 434-438 raised: tps was not built
NoInterest == [raised |-> TRUE, known |-> [t \in Topics |-> {}], tps |-> {}]

\* lines 434-438: tps, and what available_partitions_for_topic answered
Interest(ts, avail) == [raised |-> FALSE, known |-> avail, tps |-> SingleGroupTps(ts, avail)]

\* what is kept of the lookup of a group: the error code of the coordinator
\* response, whether an OffsetFetchRequest was sent, the offsets it brought
Lookup(response, fetch_sent, got) ==
  [error_code |-> response.error_code, fetch_sent |-> fetch_sent, got |-> got]

\* lines 411-419: one iteration of the loop over the consumer groups; b is what
\* is kept of the calls of _make_blocking_req the iteration made
KafkaGroupThen(b) ==
  /\ pc = "kafka"
  /\ \E g \in k_todo :
       LET ts == consumer_groups.groups[g] IN
       IF SingleGroupRaisesOnSpec(ts)
         THEN /\ GroupFailed(g)
              /\ k_interest' = Put(k_interest, g, NoInterest)
              /\ UNCHANGED << k_offsets, k_topics, k_lookups, netlog >>
         ELSE \E avail \in (IF SingleGroupNeedsAvailable(ts)
                              THEN AvailablePartitions ELSE {[t \in Topics |-> {}]}),
                 coordinator_ok \in BOOLEAN, fetch_ok \in BOOLEAN,
                 response \in CoordinatorResponses :
              \E resp \in (IF coordinator_ok /\ fetch_ok
                                /\ ~GetGroupCoordinator(response).isNone
                             THEN [SingleGroupTps(ts, avail) -> FetchEntries]
                             ELSE {EmptyMap}) :
                /\ k_interest' = Put(k_interest, g, Interest(ts, avail))
                /\ IF ~coordinator_ok
                     THEN \* _make_blocking_req: assert future.succeeded()
                          /\ GroupFailed(g)
                          /\ netlog' = Append(netlog, "GroupCoordinatorRequest")
                          /\ UNCHANGED << k_offsets, k_topics, k_lookups >>
                   ELSE IF GetGroupCoordinator(response).isNone
                     THEN \* lines 453-454
                          /\ k_todo' = k_todo \ {g}
                          /\ netlog' = Append(netlog, "GroupCoordinatorRequest")
                          /\ k_lookups' = Put(k_lookups, g, Lookup(response, FALSE, EmptyMap))
                          /\ UNCHANGED << pc, error, k_offsets, k_topics >>
                   ELSE IF ~fetch_ok
                     THEN /\ GroupFailed(g)
                          /\ netlog' = netlog \o <<"GroupCoordinatorRequest", "OffsetFetchRequest">>
                          /\ k_lookups' = Put(k_lookups, g, Lookup(response, TRUE, EmptyMap))
                          /\ UNCHANGED << k_offsets, k_topics >>
                   ELSE LET got == SingleGroupOffsets(resp) IN
                        /\ k_todo' = k_todo \ {g}
                        /\ netlog' = netlog \o <<"GroupCoordinatorRequest", "OffsetFetchRequest">>
                        /\ k_lookups' = Put(k_lookups, g, Lookup(response, TRUE, got))
                        /\ k_offsets' =
                             Update(k_offsets, [k \in { <<g, tp[1], tp[2]>> : tp \in DOMAIN got }
                                                  |-> got[<<k[2], k[3]>>]])
                        /\ k_topics' =
                             [t \in (DOMAIN k_topics) \cup { tp[1] : tp \in DOMAIN got } |->
                                (IF t \in DOMAIN k_topics THEN k_topics[t] ELSE {})
                                \cup { tp[2] : tp \in { x \in DOMAIN got : x[1] = t } }]
                        /\ UNCHANGED << pc, error >>
  /\ blocking' = b
  /\ UNCHANGED << stub_vars, mesos_vars >>
  /\ UNCHANGED << instance, config_vars, zk_vars, consumer_groups, zk_consumer_offsets,
                  kafka_consumer_offsets, topics, broker_vars, output_vars >>

KafkaGroup == KafkaGroupThen(blocking)

\* line 421, and check() line 90
KafkaReturn ==
  /\ pc = "kafka"
  /\ k_todo = {}
  /\ kafka_consumer_offsets' = OffsetsDict(k_offsets)
  /\ topics' = k_topics
  /\ pc' = "fallback"
  /\ UNCHANGED << req_vars, stub_vars, mesos_vars >>
  /\ UNCHANGED << instance, config_vars, zk_vars, error, consumer_groups, zk_consumer_offsets,
                  kafka_vars, broker_vars, netlog, output_vars >>

(***************************************************************************)
(* check(), lines 92-107                                                   *)
(***************************************************************************)
\* lines 94-96: iteritems(None) and set.update(None) raise
FallbackError(cg) ==
  IF cg.kind = "None" THEN "AttributeError"
  ELSE IF \E g \in DOMAIN cg.groups : cg.groups[g].kind = "None" THEN "AttributeError"
  ELSE IF \E g \in DOMAIN cg.groups : \E t \in DOMAIN cg.groups[g].topics :
            cg.groups[g].topics[t].kind = "None" THEN "TypeError"
  ELSE ""

\* lines 94-96: topics[topic].update(partitions) over all groups
FallbackTopics(cg) ==
  LET ts == UNION { DOMAIN cg.groups[g].topics : g \in DOMAIN cg.groups }
  IN [t \in ts |-> UNION { cg.groups[g].topics[t].parts :
                             g \in { h \in DOMAIN cg.groups : t \in DOMAIN cg.groups[h].topics } }]

TopicsFallback ==
  /\ pc = "fallback"
  /\ IF DOMAIN topics # {}
       THEN /\ pc' = "limit"
            /\ UNCHANGED << topics, error >>
       ELSE IF FallbackError(consumer_groups) # ""
              THEN /\ Raise(FallbackError(consumer_groups))
                   /\ UNCHANGED topics
              ELSE /\ topics' = FallbackTopics(consumer_groups)
                   /\ pc' = "limit"
                   /\ error' = error
  /\ UNCHANGED << req_vars, stub_vars, mesos_vars >>
  /\ UNCHANGED << instance, config_vars, zk_vars, consumer_groups, zk_consumer_offsets,
                  kafka_consumer_offsets, kafka_vars, broker_vars, netlog, output_vars >>

\* warn_msg % count
WarnMsg(count) ==
  " Discovered " \o ToString(count) \o " partition contexts - this exceeds the maximum"

\* only the second of the two checks
OverLimitKafkaOnly(zk, kafka, limit) ==
  IF TruthyOffsets(kafka) /\ Cardinality(DOMAIN kafka.map) > limit
    THEN Cardinality(DOMAIN kafka.map)
  ELSE -1

\* lines 102-107: the count the warning names, -1 when the cycle goes on
OverLimit(zk, kafka, limit) ==
  IF TruthyOffsets(zk) /\ Cardinality(DOMAIN zk.map) > limit
    THEN Cardinality(DOMAIN zk.map)
  ELSE IF TruthyOffsets(kafka) /\ Cardinality(DOMAIN kafka.map) > limit
    THEN Cardinality(DOMAIN kafka.map)
  ELSE -1

LimitCheck ==
  /\ pc = "limit"
  /\ LET over == OverLimit(zk_consumer_offsets, kafka_consumer_offsets, context_limit) IN
     IF over >= 0
       THEN /\ warnings' = Append(warnings, WarnMsg(over))
            /\ pc' = "aborted"
       ELSE /\ pc' = "highwater"
            /\ UNCHANGED warnings
  /\ UNCHANGED << req_vars, stub_vars, mesos_vars >>
  /\ UNCHANGED << instance, config_vars, zk_vars, error, consumer_groups, zk_consumer_offsets,
                  kafka_consumer_offsets, topics, kafka_vars, broker_vars, netlog, gauges,
                  events >>

(***************************************************************************)
(* _get_broker_offsets and _process_highwater_offsets                      *)
(***************************************************************************)
\* cluster.leader_for_partition: None, or a node id (negative: no leader)
LeaderAnswers ==
  { [isNone |-> TRUE, id |-> 0] }
  \cup { [isNone |-> FALSE, id |-> i] : i \in {-1} \cup Brokers }

\* line 254
HasLeader(partition_leader) == ~partition_leader.isNone /\ partition_leader.id >= 0

\* lines 243-248: topics_to_fetch, as (topic, partition) pairs
TopicsToFetch(tops, avail) ==
  { tp \in TopicPartitions :
      /\ tp[1] \in DOMAIN tops
      /\ tp[2] \in (IF tops[tp[1]] = {} THEN avail[tp[1]] ELSE tops[tp[1]]) }

\* the pairs grouped under whatever id the metadata holds, a negative one too
LeaderTpAnyId(lead) ==
  LET led == { tp \in DOMAIN lead : ~lead[tp].isNone }
  IN [n \in { lead[tp].id : tp \in led } |-> { tp \in led : lead[tp].id = n }]

\* lines 250-255: leader_tp, node id -> its (topic, partition) pairs
LeaderTp(lead) ==
  LET led == { tp \in DOMAIN lead : HasLeader(lead[tp]) }
  IN [n \in { lead[tp].id : tp \in led } |-> { tp \in led : lead[tp].id = n }]

\* lines 239-256
GetBrokerOffsetsBegin ==
  /\ pc = "highwater"
  /\ \E avail \in (IF \E t \in DOMAIN topics : topics[t] = {}
                     THEN AvailablePartitions ELSE {[t \in Topics |-> {}]}) :
       \E lead \in [TopicsToFetch(topics, avail) -> LeaderAnswers] :
         /\ leaders' = lead
         /\ leader_tp' = LeaderTp(lead)
  /\ highwater_offsets' = EmptyMap
  /\ topic_partitions_without_a_leader' = {}
  /\ pc' = "requests"
  /\ UNCHANGED << req_vars, stub_vars, mesos_vars >>
  /\ UNCHANGED << instance, config_vars, zk_vars, error, consumer_groups, zk_consumer_offsets,
                  kafka_consumer_offsets, topics, kafka_vars, responses, hw_requests, netlog,
                  output_vars >>

\* one entry of an OffsetResponse: (partition, error_code, offsets)
HighwaterEntries ==
  { [error_code |-> 0, offset |-> o] : o \in Offsets }
  \cup { [error_code |-> c, offset |-> -1] : c \in {1, 3, 6} }

\* every error code swallowed
ProcessNeverRaises(resp) == FALSE

\* lines 211-215: an error code that is none of the three handled ones
ProcessRaises(resp) ==
  \E tp \in DOMAIN resp :
    ForCode(resp[tp].error_code) \notin
      {"NoError", "NotLeaderForPartitionError", "UnknownTopicOrPartitionError"}

\* the offset of a 'not leader' entry recorded too
ProcessHighwaterKeepsNotLeader(resp) ==
  [tp \in { x \in DOMAIN resp : ForCode(resp[x].error_code) \in
                                  {"NoError", "NotLeaderForPartitionError"} } |-> resp[tp].offset]

\* lines 186-187
ProcessHighwater(resp) ==
  [tp \in { x \in DOMAIN resp : ForCode(resp[x].error_code) = "NoError" } |-> resp[tp].offset]

\* both handled errors appended to the list
ProcessUnledWithUnknown(resp) ==
  { tp \in DOMAIN resp : ForCode(resp[tp].error_code) \in
                            {"NotLeaderForPartitionError", "UnknownTopicOrPartitionError"} }

\* lines 190-210: only NotLeaderForPartitionError appends to the list
ProcessUnled(resp) ==
  { tp \in DOMAIN resp : ForCode(resp[tp].error_code) = "NotLeaderForPartitionError" }

NodesRequested == { hw_requests[i].node : i \in 1..Len(hw_requests) }

\* lines 258-271: one iteration of the loop over leader_tp; a failed request
\* and a raising _process_highwater_offsets end check() at lines 112-114
BrokerRequestThen(b) ==
  /\ pc = "requests"
  /\ \E node \in (DOMAIN leader_tp) \ NodesRequested, ok \in BOOLEAN :
       \E resp \in (IF ok THEN [leader_tp[node] -> HighwaterEntries] ELSE {EmptyMap}) :
         /\ hw_requests' = Append(hw_requests, [node |-> node, tps |-> leader_tp[node]])
         /\ netlog' = Append(netlog, "OffsetRequest")
         /\ responses' = Update(responses, [tp \in DOMAIN resp |-> resp[tp].error_code])
         /\ IF ~ok \/ ProcessRaises(resp)
              THEN /\ pc' = "failed"
                   /\ UNCHANGED << highwater_offsets, topic_partitions_without_a_leader >>
              ELSE /\ highwater_offsets' = Update(highwater_offsets, ProcessHighwater(resp))
                   /\ topic_partitions_without_a_leader' =
                        topic_partitions_without_a_leader \cup ProcessUnled(resp)
                   /\ pc' = pc
  /\ blocking' = b
  /\ UNCHANGED << stub_vars, mesos_vars >>
  /\ UNCHANGED << instance, config_vars, zk_vars, error, consumer_groups, zk_consumer_offsets,
                  kafka_consumer_offsets, topics, kafka_vars, leaders, leader_tp, output_vars >>

BrokerRequest == BrokerRequestThen(blocking)

(***************************************************************************)
(* check(), lines 116-135, and _report_consumer_metrics                    *)
(***************************************************************************)
\* line 118
BrokerTags(topic, partition, custom_tags) ==
  <<"topic:" \o topic, "partition:" \o ToString(partition)>> \o custom_tags

\* the tag of the partition left out
BrokerGaugesPerTopic(hw, custom_tags) ==
  { [name |-> "kafka.broker_offset", value |-> hw[tp],
     tags |-> <<"topic:" \o tp[1]>> \o custom_tags] : tp \in DOMAIN hw }

\* lines 117-119
BrokerGauges(hw, custom_tags) ==
  { [name |-> "kafka.broker_offset", value |-> hw[tp],
     tags |-> BrokerTags(tp[1], tp[2], custom_tags)] : tp \in DOMAIN hw }

\* lines 300-301
ConsumerGroupTags(group, topic, partition, tags) ==
  <<"topic:" \o topic, "partition:" \o ToString(partition), "consumer_group:" \o group>>
  \o tags

\* the lag clamped to zero
ConsumerLagClamped(highwater_offset, consumer_offset) ==
  IF highwater_offset - consumer_offset < 0 THEN 0 ELSE highwater_offset - consumer_offset

\* line 304
ConsumerLag(highwater_offset, consumer_offset) == highwater_offset - consumer_offset

\* the key without the partition
AggregationKeyNoPartition(group, topic, partition) == group \o ":" \o topic

\* line 314
AggregationKey(group, topic, partition) ==
  group \o ":" \o topic \o ":" \o ToString(partition)

\* line 282: the keys that are not skipped
Reported(hw, offsets) == { k \in DOMAIN offsets : <<k[2], k[3]>> \in DOMAIN hw }

\* the consumer_offset gauge not held back by the continue of line 298
ConsumerGaugesEveryOffset(hw, offsets, tags) ==
  { [name |-> "kafka.consumer_offset", value |-> offsets[k],
     tags |-> ConsumerGroupTags(k[1], k[2], k[3], tags)] : k \in DOMAIN offsets }
  \cup
  { [name |-> "kafka.consumer_lag", value |-> ConsumerLag(hw[<<k[2], k[3]>>], offsets[k]),
     tags |-> ConsumerGroupTags(k[1], k[2], k[3], tags)] : k \in Reported(hw, offsets) }

\* the consumer_lag gauge alone, line 302 left out
ConsumerGaugesLagOnly(hw, offsets, tags) ==
  { [name |-> "kafka.consumer_lag", value |-> ConsumerLag(hw[<<k[2], k[3]>>], offsets[k]),
     tags |-> ConsumerGroupTags(k[1], k[2], k[3], tags)] : k \in Reported(hw, offsets) }

\* lines 302 and 318
ConsumerGauges(hw, offsets, tags) ==
  { [name |-> "kafka.consumer_offset", value |-> offsets[k],
     tags |-> ConsumerGroupTags(k[1], k[2], k[3], tags)] : k \in Reported(hw, offsets) }
  \cup
  { [name |-> "kafka.consumer_lag", value |-> ConsumerLag(hw[<<k[2], k[3]>>], offsets[k]),
     tags |-> ConsumerGroupTags(k[1], k[2], k[3], tags)] : k \in Reported(hw, offsets) }

\* lines 305-316 and _send_event
ConsumerEvents(hw, offsets, tags) ==
  { [source_type_name |-> "kafka",
     msg_title |-> "Negative consumer lag for group: " \o k[1] \o ".",
     event_type |-> "consumer_lag",
     alert_type |-> "error",
     msg_text |-> "Consumer lag for consumer group: " \o k[1] \o ", topic: " \o k[2]
                  \o ", partition: " \o ToString(k[3])
                  \o " is negative. This should never happen.",
     tags |-> ConsumerGroupTags(k[1], k[2], k[3], tags),
     aggregation_key |-> AggregationKey(k[1], k[2], k[3])] :
    k \in { x \in Reported(hw, offsets) : ConsumerLag(hw[<<x[2], x[3]>>], offsets[x]) < 0 } }

\* lines 122-135: the offsets each call of _report_consumer_metrics gets
ReportedSource(offsets) == IF TruthyOffsets(offsets) THEN offsets.map ELSE EmptyMap

\* the tag of the source left out
SourceTagsUntagged(custom_tags, source) == custom_tags

\* lines 127 and 134: custom_tags + ['source:zk'], custom_tags + ['source:kafka']
SourceTags(custom_tags, source) == custom_tags \o <<"source:" \o source>>

\* line 273 returns; lines 116-135
Report ==
  /\ pc = "requests"
  /\ DOMAIN leader_tp \subseteq NodesRequested
  /\ gauges' = gauges
       (+) SetToBag(BrokerGauges(highwater_offsets, instance.tags))
       (+) SetToBag(ConsumerGauges(highwater_offsets, ReportedSource(zk_consumer_offsets),
                                   SourceTags(instance.tags, "zk")))
       (+) SetToBag(ConsumerGauges(highwater_offsets, ReportedSource(kafka_consumer_offsets),
                                   SourceTags(instance.tags, "kafka")))
  /\ events' = events
       (+) SetToBag(ConsumerEvents(highwater_offsets, ReportedSource(zk_consumer_offsets),
                                   SourceTags(instance.tags, "zk")))
       (+) SetToBag(ConsumerEvents(highwater_offsets, ReportedSource(kafka_consumer_offsets),
                                   SourceTags(instance.tags, "kafka")))
  /\ pc' = "done"
  /\ UNCHANGED << req_vars, stub_vars, mesos_vars >>
  /\ UNCHANGED << instance, config_vars, zk_vars, error, consumer_groups, zk_consumer_offsets,
                  kafka_consumer_offsets, topics, kafka_vars, broker_vars, netlog, warnings >>

(***************************************************************************)
(* The cycles                                                              *)
(***************************************************************************)
Ended == pc \in {"done", "aborted", "failed", "raised"}

\* the locals and the outputs of a call of check() before its first line
CycleReset ==
  /\ pc' = "idle"
  /\ error' = ""
  /\ consumer_groups' = GroupsNone
  /\ zk_consumer_offsets' = OffsetsNone
  /\ kafka_consumer_offsets' = OffsetsNone
  /\ topics' = EmptyMap
  /\ k_todo' = {}
  /\ k_offsets' = EmptyMap
  /\ k_topics' = EmptyMap
  /\ k_lookups' = EmptyMap
  /\ k_interest' = EmptyMap
  /\ leaders' = EmptyMap
  /\ leader_tp' = EmptyMap
  /\ responses' = EmptyMap
  /\ hw_requests' = <<>>
  /\ highwater_offsets' = EmptyMap
  /\ topic_partitions_without_a_leader' = {}
  /\ netlog' = <<>>
  /\ gauges' = EmptyBag
  /\ events' = EmptyBag
  /\ warnings' = <<>>

\* the next call of check(): fresh locals, the same instance
NextCycle ==
  /\ Ended
  /\ CycleReset
  /\ UNCHANGED << req_vars, stub_vars, mesos_vars >>
  /\ UNCHANGED << instance, config_vars, zk_vars >>

\* no call of _make_blocking_req in progress, none returned in this iteration
NoRequest == [phase |-> "none", returned |-> 0, polled |-> FALSE]

\* no call of the stub made yet
NoCall == [name |-> "", raised |-> FALSE]

\* the state before the first call of check(), the tree one of stores
InitWith(stores) ==
  /\ instance \in Instances
  /\ context_limit \in ContextLimits(instance)
  /\ api_version_ok \in BOOLEAN
  /\ pc = "idle"
  /\ error = ""
  /\ consumer_groups = GroupsNone
  /\ zk_consumer_offsets = OffsetsNone
  /\ kafka_consumer_offsets = OffsetsNone
  /\ topics = EmptyMap
  /\ k_todo = {}
  /\ k_offsets = EmptyMap
  /\ k_topics = EmptyMap
  /\ k_lookups = EmptyMap
  /\ k_interest = EmptyMap
  /\ leaders = EmptyMap
  /\ leader_tp = EmptyMap
  /\ responses = EmptyMap
  /\ hw_requests = <<>>
  /\ highwater_offsets = EmptyMap
  /\ topic_partitions_without_a_leader = {}
  /\ netlog = <<>>
  /\ gauges = EmptyBag
  /\ events = EmptyBag
  /\ warnings = <<>>
  /\ zk_conn = "none"
  /\ zk_read = NoSession
  /\ zk_store \in (IF instance.zk_connect_str THEN stores ELSE {EmptyStore})
  /\ zk_prev = NoOutcome
  /\ blocking = NoRequest
  /\ metrics = EmptyMap
  /\ asserted = {}
  /\ stub_call = NoCall
  /\ service_check_needed = TRUE
  /\ m_pc = "idle"
  /\ m_leader = FALSE
  /\ m_state_ok = FALSE
  /\ m_service_checks = <<>>
  /\ m_version = <<>>
  /\ m_requests = <<>>
  /\ m_error = ""

\* the tree is not followed: every call reads an arbitrary one
Init == InitWith({EmptyStore})

Next ==
  \/ CheckBegin
  \/ ZkStart
  \/ ZkDiscoverAny
  \/ ZkStop
  \/ ZkReturn
  \/ RefreshMetadata
  \/ KafkaGroup
  \/ KafkaReturn
  \/ TopicsFallback
  \/ LimitCheck
  \/ GetBrokerOffsetsBegin
  \/ BrokerRequest
  \/ Report
  \/ NextCycle

Spec == Init /\ [][Next]_vars

(***************************************************************************)
(* The Zookeeper discovery alone: check() up to line 69, call after call,  *)
(* against a tree that is followed from one call to the next               *)
(***************************************************************************)
\* the call reads the tree as it stands
ZkDiscoverStore == ZkDiscover(ZkSessions({zk_store}))

\* the call ends and its outcome is kept
ZkReturnRemember == ZkReturnThen(ZkOutcome)

ZkCallEnded == pc \in {"metadata", "raised"}

\* the next call of check() finds the tree as it was
ZkAgain ==
  /\ ZkCallEnded
  /\ CycleReset
  /\ UNCHANGED << req_vars, stub_vars, mesos_vars >>
  /\ UNCHANGED << instance, config_vars, zk_vars >>

\* the trees one write away: a leaf created, deleted or written, or the child
\* that is no partition id created or deleted
ZkWrites(store) ==
  { [store EXCEPT !.leaves[k] = v] : k \in ZkLeaves, v \in LeafValues }
  \cup { [store EXCEPT !.junk = ~store.junk] }

\* the tree changes between two calls of check()
ZkChange ==
  /\ ZkCallEnded
  /\ instance.zk_connect_str
  /\ CycleReset
  /\ zk_store' \in ZkWrites(zk_store) \ {zk_store}
  /\ zk_prev' = NoOutcome
  /\ UNCHANGED << req_vars, stub_vars, mesos_vars >>
  /\ UNCHANGED << instance, config_vars, zk_conn, zk_read >>

InitZk == InitWith(ZkStores)

NextZk ==
  \/ CheckBegin
  \/ ZkStart
  \/ ZkDiscoverStore
  \/ ZkStop
  \/ ZkReturnRemember
  \/ ZkAgain
  \/ ZkChange

SpecZk == InitZk /\ [][NextZk]_vars

(***************************************************************************)
(* The cycle with the calls of _make_blocking_req followed step by step:   *)
(* an iteration of a loop takes its step once its calls have returned      *)
(***************************************************************************)
\* the loop over the consumer groups has a group whose iteration makes a request
GroupRequestAhead ==
  /\ pc = "kafka"
  /\ blocking.returned < Len(<<"GroupCoordinatorRequest", "OffsetFetchRequest">>)
  /\ \E g \in k_todo : ~SingleGroupRaisesOnSpec(consumer_groups.groups[g])

\* the loop over leader_tp has a node whose OffsetRequest was not made
BrokerRequestAhead ==
  /\ pc = "requests"
  /\ blocking.returned = 0
  /\ (DOMAIN leader_tp) \ NodesRequested # {}

\* lines 162-166: the call is entered
MakeBlockingReq ==
  /\ blocking.phase = "none"
  /\ GroupRequestAhead \/ BrokerRequestAhead
  /\ blocking' = [blocking EXCEPT !.phase = "polling", !.polled = FALSE]
  /\ UNCHANGED << instance, config_vars, zk_vars, pc, error, consumer_groups,
                  zk_consumer_offsets, kafka_consumer_offsets, topics, kafka_vars,
                  broker_vars, netlog, output_vars, stub_vars, mesos_vars >>

\* lines 166-169: ready(node_id) is false, poll() and test again
Poll ==
  /\ blocking.phase = "polling"
  /\ blocking' = [blocking EXCEPT !.polled = TRUE]
  /\ UNCHANGED << instance, config_vars, zk_vars, pc, error, consumer_groups,
                  zk_consumer_offsets, kafka_consumer_offsets, topics, kafka_vars,
                  broker_vars, netlog, output_vars, stub_vars, mesos_vars >>

\* the loop never left
ReadyNever == Poll

\* line 166: ready(node_id) is true, the loop is left
Ready ==
  /\ blocking.phase = "polling"
  /\ blocking' = [blocking EXCEPT !.phase = "ready"]
  /\ UNCHANGED << instance, config_vars, zk_vars, pc, error, consumer_groups,
                  zk_consumer_offsets, kafka_consumer_offsets, topics, kafka_vars,
                  broker_vars, netlog, output_vars, stub_vars, mesos_vars >>

\* line 171
Send ==
  /\ blocking.phase = "ready"
  /\ blocking' = [blocking EXCEPT !.phase = "sent"]
  /\ UNCHANGED << instance, config_vars, zk_vars, pc, error, consumer_groups,
                  zk_consumer_offsets, kafka_consumer_offsets, topics, kafka_vars,
                  broker_vars, netlog, output_vars, stub_vars, mesos_vars >>

\* line 172: poll(future=future) returns, the request has completed
PollFuture ==
  /\ blocking.phase = "sent"
  /\ blocking' = [blocking EXCEPT !.phase = "none", !.returned = @ + 1]
  /\ UNCHANGED << instance, config_vars, zk_vars, pc, error, consumer_groups,
                  zk_consumer_offsets, kafka_consumer_offsets, topics, kafka_vars,
                  broker_vars, netlog, output_vars, stub_vars, mesos_vars >>

\* the iteration over a group, after the calls it made have returned
KafkaGroupBlocking ==
  /\ blocking.phase = "none"
  /\ KafkaGroupThen([blocking EXCEPT !.returned = 0])
  /\ Len(netlog') = Len(netlog) + blocking.returned

\* the iteration over a node, after its call has returned
BrokerRequestBlocking ==
  /\ blocking.phase = "none"
  /\ BrokerRequestThen([blocking EXCEPT !.returned = 0])
  /\ Len(netlog') = Len(netlog) + blocking.returned

\* the Zookeeper discovery against an empty tree
ZkDiscoverEmpty == ZkDiscover(ZkSessions({EmptyStore}))

\* the instances of the cycles followed this way
BlockingInstances == { i \in Instances : ~i.monitor_unlisted_consumer_groups }

InitBlocking == Init /\ instance \in BlockingInstances

\* the steps of check() itself
CheckStep ==
  \/ CheckBegin
  \/ ZkStart
  \/ ZkDiscoverEmpty
  \/ ZkStop
  \/ ZkReturn
  \/ RefreshMetadata
  \/ KafkaGroupBlocking
  \/ KafkaReturn
  \/ TopicsFallback
  \/ LimitCheck
  \/ GetBrokerOffsetsBegin
  \/ BrokerRequestBlocking
  \/ Report
  \/ NextCycle
  \/ MakeBlockingReq
  \/ Send

NextBlocking ==
  \/ CheckStep
  \/ Poll
  \/ Ready
  \/ PollFuture

\* the check runs on; every node polled gets ready; every request sent completes
SpecBlocking ==
  /\ InitBlocking
  /\ [][NextBlocking]_vars
  /\ WF_vars(CheckStep)
  /\ WF_vars(Ready)
  /\ WF_vars(PollFuture)

(***************************************************************************)
(* AggregatorStub (datadog_checks/base/stubs/aggregator.py): the metrics   *)
(* a test submits and the assertions it makes on them                      *)
(***************************************************************************)
\* the stubs recorded in all, at most
MaxSubmits == 2

MetricNames == {"m1", "m2"}

\* METRIC_ENUM_MAP, lines 34-45: 'gauge' and 'count'
GAUGE == 0
COUNT == 2

\* line 46: AGGREGATE_TYPES, of the types submitted
is_aggregate(mtype) == mtype = COUNT

MetricTypes == {GAUGE, COUNT}
MetricValues == {1, 2}
TagLists == { <<>>, <<"a:1">>, <<"b:2", "a:1">> }
AssertedTagLists == { <<>>, <<"a:1", "b:2">> }

\* an argument left at its default None, and one given
None == [isNone |-> TRUE, v |-> 0]
Some(x) == [isNone |-> FALSE, v |-> x]
Optional(S) == {None} \cup { Some(x) : x \in S }

\* stubs/common.py: MetricStub
MetricStub(name, mtype, value, tags, hostname) ==
  [name |-> name, type |-> mtype, value |-> value, tags |-> tags, hostname |-> hostname]

\* lines 67-80: the stubs received under the name, none for a name never
\* submitted; the dict is read with get() and gets no new key
StubMetrics(name) == IF name \in DOMAIN metrics THEN metrics[name] ELSE <<>>

\* the tags of a list, each as many times as it is listed: two lists are equal
\* once sorted exactly when these are equal
TagBag(tags) == [t \in { tags[i] : i \in 1..Len(tags) } |->
                   Cardinality({ i \in 1..Len(tags) : tags[i] = t })]

\* line 170: tags != sorted(metric.tags), tags sorted at line 163
SortedDiffer(tags, other) == TagBag(tags) # TagBag(other)

\* line 266: t.startswith(tag_prefix), for the tags and the prefixes used
StartsWith(t, tag_prefix) ==
  <<t, tag_prefix>> \in { <<"a:1", "a">>, <<"a:1", "a:1">>, <<"b:2", "b">>, <<"b:2", "b:2">> }

RECURSIVE SumValues(_, _)
\* line 184: sum(m.value for m in candidates), the candidates given by their indexes
SumValues(ms, idx) ==
  IF idx = {} THEN 0
  ELSE LET i == CHOOSE x \in idx : TRUE IN ms[i].value + SumValues(ms, idx \ {i})

\* every stub recorded
RecordedCount ==
  Cardinality({ <<n, i>> \in MetricNames \X (1..MaxSubmits) :
                  n \in DOMAIN metrics /\ i <= Len(metrics[n]) })

\* lines 129-132, 270-273 and 187-193: the number of candidates against
\* count if it is given, against at_least if not
SizeCondition(n, count, at_least) ==
  IF ~count.isNone THEN n = count.v ELSE n >= at_least

\* the last call made on the stub and whether it raised AssertionError
Called(name, raised) == [name |-> name, raised |-> raised]

\* lines 58-59
SubmitMetric ==
  /\ RecordedCount < MaxSubmits
  /\ \E name \in MetricNames, mtype \in MetricTypes, value \in MetricValues,
        tags \in TagLists, hostname \in {""} :
       metrics' = Put(metrics, name,
                      Append(StubMetrics(name), MetricStub(name, mtype, value, tags, hostname)))
  /\ stub_call' = Called("submit_metric", FALSE)
  /\ UNCHANGED << asserted, check_vars, req_vars, mesos_vars >>

\* lines 165-179: the indexes of the candidates
Candidates(name, value, tags, hostname, metric_type) ==
  LET ms == StubMetrics(name) IN
  { i \in 1..Len(ms) :
      /\ ~(~value.isNone /\ ~is_aggregate(ms[i].type) /\ value.v # ms[i].value)
      /\ ~(tags # <<>> /\ SortedDiffer(tags, ms[i].tags))
      /\ ~(hostname # "" /\ hostname # ms[i].hostname)
      /\ ~(~metric_type.isNone /\ metric_type.v # ms[i].type) }

\* lines 183-193: condition
AssertMetricCondition(name, value, tags, count, at_least, hostname, metric_type) ==
  LET ms == StubMetrics(name)
      candidates == Candidates(name, value, tags, hostname, metric_type) IN
  IF ~value.isNone /\ candidates # {} /\ \A i \in candidates : is_aggregate(ms[i].type)
    THEN value.v = SumValues(ms, candidates)
    ELSE SizeCondition(Cardinality(candidates), count, at_least)

\* lines 157-194
AssertMetric ==
  /\ \E name \in MetricNames, value \in Optional({1, 3}),
        tags \in AssertedTagLists, count \in Optional({1}), at_least \in {0, 1},
        hostname \in {"", "h"}, metric_type \in Optional({COUNT}) :
       /\ asserted' = asserted \cup {name}
       /\ stub_call' = Called("assert_metric",
            ~AssertMetricCondition(name, value, tags, count, at_least, hostname, metric_type))
  /\ UNCHANGED << metrics, check_vars, req_vars, mesos_vars >>

\* lines 118-132
AssertMetricHasTag ==
  /\ \E metric_name \in MetricNames, tag \in {"a:1", "b:2", "c:3"}, count \in Optional({1}),
        at_least \in {0, 1} :
       LET ms == StubMetrics(metric_name)
           candidates == { i \in 1..Len(ms) : \E k \in 1..Len(ms[i].tags) : ms[i].tags[k] = tag }
       IN /\ asserted' = asserted \cup {metric_name}
          /\ stub_call' = Called("assert_metric_has_tag",
                                 ~SizeCondition(Cardinality(candidates), count, at_least))
  /\ UNCHANGED << metrics, check_vars, req_vars, mesos_vars >>

\* lines 260-273
AssertMetricHasTagPrefix ==
  /\ \E metric_name \in MetricNames, tag_prefix \in {"a", "b:2"}, count \in Optional({1}),
        at_least \in {0, 1} :
       LET ms == StubMetrics(metric_name)
           candidates == { i \in 1..Len(ms) :
                             \E k \in 1..Len(ms[i].tags) : StartsWith(ms[i].tags[k], tag_prefix) }
       IN /\ asserted' = asserted \cup {metric_name}
          /\ stub_call' = Called("assert_metric_has_tag_prefix",
                                 ~SizeCondition(Cardinality(candidates), count, at_least))
  /\ UNCHANGED << metrics, check_vars, req_vars, mesos_vars >>

\* lines 256-258
not_asserted == (DOMAIN metrics) \ asserted

\* lines 275-292, rounded down to a whole number: the comparisons with 100 of
\* lines 240 and 242 come out the same
metrics_asserted_pct ==
  LET num_metrics == Cardinality(DOMAIN metrics)
      num_asserted == Cardinality(asserted) IN
  IF num_metrics = 0
    THEN (IF num_asserted = 0 THEN 100 ELSE 0)
    ELSE ((num_metrics - Cardinality(not_asserted)) * 100) \div num_metrics

\* lines 238-242
AssertAllMetricsCovered ==
  /\ stub_call' = Called("assert_all_metrics_covered", ~(metrics_asserted_pct >= 100))
  /\ UNCHANGED << metrics, asserted, check_vars, req_vars, mesos_vars >>

\* lines 244-251
StubReset ==
  /\ metrics' = EmptyMap
  /\ asserted' = {}
  /\ stub_call' = Called("reset", FALSE)
  /\ UNCHANGED << check_vars, req_vars, mesos_vars >>

\* no check() of the Kafka check is running
CheckIdle ==
  /\ instance = CHOOSE i \in Instances : TRUE
  /\ context_limit = CHOOSE l \in ContextLimits(instance) : TRUE
  /\ api_version_ok

\* lines 48-52
InitStub == Init /\ CheckIdle

NextStub ==
  \/ SubmitMetric
  \/ AssertMetric
  \/ AssertMetricHasTag
  \/ AssertMetricHasTagPrefix
  \/ AssertAllMetricsCovered
  \/ StubReset

SpecStub == InitStub /\ [][NextStub]_vars

(***************************************************************************)
(* MesosMaster (mesos_master.py): check(), run after run on one instance   *)
(* of the class, and the service check 'mesos_master.can_connect'          *)
(***************************************************************************)
\* what requests.get does: a response with status 200, one with another
\* status, a timeout or another exception
Answers == {"200", "500", "Timeout", "ConnectionError"}

\* what r.json() gives for the body of a 200: it raises, null, a document
\* without the keys read, the state of a master that leads or follows,
\* by the version stated
MesosVersions == { <<0, 21, 0>>, <<0, 28, 0>>, <<1, 8, 0>> }
StateBodies ==
  { [kind |-> k, version |-> <<>>, leads |-> FALSE] : k \in {"invalid", "null", "nokeys"} }
  \cup [kind : {"state"}, version : MesosVersions, leads : BOOLEAN]
JsonBodies == {"invalid", "null", "nokeys", "json"}

\* lines 203, 210: self.version >= other, two lists of three numbers
VersionAtLeast(version, other) ==
  \/ version[1] > other[1]
  \/ version[1] = other[1] /\ version[2] > other[2]
  \/ version[1] = other[1] /\ version[2] = other[2] /\ version[3] >= other[3]

\* lines 202-207
StatsEndpoint ==
  IF VersionAtLeast(m_version, <<0, 22, 0>>) THEN "/metrics/snapshot" ELSE "/stats.json"

\* lines 209-214
RolesEndpoint ==
  IF VersionAtLeast(m_version, <<1, 8, 0>>) THEN "/roles" ELSE "/roles.json"

\* check() left by an exception
MesosRaise(e) ==
  /\ m_pc' = "raised"
  /\ m_error' = e

\* lines 175-184 with a status that is not CRITICAL: lines 182-184
SendServiceCheck ==
  IF service_check_needed
    THEN /\ m_service_checks' = Append(m_service_checks, "OK")
         /\ service_check_needed' = FALSE
    ELSE UNCHANGED << m_service_checks, service_check_needed >>

\* lines 147-168 when requests.get gave no 200: the response with another
\* status raises CheckException at lines 176-181; with an exception of
\* requests.get r is not bound, and the call of line 168 raises UnboundLocalError
GetJsonFails(answer) ==
  /\ answer # "200"
  /\ MesosRaise(IF answer = "500" THEN "CheckException" ELSE "UnboundLocalError")
  /\ UNCHANGED << m_service_checks, service_check_needed >>

\* lines 228-238
MesosCheckBegin ==
  /\ m_pc = "idle"
  /\ \E has_url \in BOOLEAN :
       IF has_url
         THEN m_pc' = "state" /\ m_error' = m_error
         ELSE MesosRaise("Exception")
  /\ UNCHANGED << service_check_needed, m_leader, m_state_ok, m_service_checks, m_version,
                  m_requests, check_vars, req_vars, stub_vars >>

\* lines 170-173, 216-225 and 240 with the state read: version and leader set,
\* the requests of lines 257 and 266 follow if the state is not empty
StateRead(body) ==
  CASE body.kind = "invalid" -> MesosRaise("ValueError") /\ UNCHANGED << m_leader, m_version >>
    [] body.kind = "null" -> m_pc' = "end" /\ m_leader' = FALSE
                             /\ UNCHANGED << m_version, m_error >>
    [] body.kind = "nokeys" -> MesosRaise("KeyError") /\ m_leader' = FALSE
                               /\ UNCHANGED m_version
    [] OTHER -> /\ m_version' = body.version
                /\ m_leader' = body.leads
                /\ m_pc' = (IF body.leads THEN "roles" ELSE "stats")
                /\ m_error' = m_error

\* lines 186-190, _get_json with failure_expected: the request of '/state'
GetMasterState ==
  /\ m_pc = "state"
  /\ m_requests' = Append(m_requests, "/state")
  /\ \E answer \in Answers, body \in StateBodies :
       CASE answer = "200" ->
              /\ SendServiceCheck
              /\ m_state_ok' = TRUE
              /\ StateRead(body)
         [] answer = "500" ->
              \* lines 176-179, caught at line 191
              /\ m_pc' = "state.json"
              /\ UNCHANGED << m_service_checks, service_check_needed, m_state_ok, m_leader,
                              m_version, m_error >>
         [] OTHER ->
              /\ GetJsonFails(answer)
              /\ UNCHANGED << m_state_ok, m_leader, m_version >>
  /\ UNCHANGED << check_vars, req_vars, stub_vars >>

\* lines 191-199: the request of the deprecated '/state.json'
GetMasterStateOld ==
  /\ m_pc = "state.json"
  /\ m_requests' = Append(m_requests, "/state.json")
  /\ \E answer \in Answers, body \in StateBodies :
       IF answer = "200"
         THEN /\ SendServiceCheck
              /\ m_state_ok' = TRUE
              /\ StateRead(body)
         ELSE /\ GetJsonFails(answer)
              /\ UNCHANGED << m_state_ok, m_leader, m_version >>
  /\ UNCHANGED << check_vars, req_vars, stub_vars >>

\* lines 257-264
GetMasterRoles ==
  /\ m_pc = "roles"
  /\ m_requests' = Append(m_requests, RolesEndpoint)
  /\ \E answer \in Answers, body \in JsonBodies :
       IF answer = "200"
         THEN /\ SendServiceCheck
              /\ CASE body = "invalid" -> MesosRaise("ValueError")
                   [] body = "nokeys" -> MesosRaise("KeyError")
                   [] OTHER -> m_pc' = "stats" /\ m_error' = m_error
         ELSE GetJsonFails(answer)
  /\ UNCHANGED << m_state_ok, m_leader, m_version, check_vars, req_vars, stub_vars >>

\* lines 266-281: the keys of the stats are read where they are present
GetMasterStats ==
  /\ m_pc = "stats"
  /\ m_requests' = Append(m_requests, StatsEndpoint)
  /\ \E answer \in Answers, body \in JsonBodies :
       IF answer = "200"
         THEN /\ SendServiceCheck
              /\ IF body = "invalid"
                   THEN MesosRaise("ValueError")
                   ELSE m_pc' = "end" /\ m_error' = m_error
         ELSE GetJsonFails(answer)
  /\ UNCHANGED << m_state_ok, m_leader, m_version, check_vars, req_vars, stub_vars >>

\* line 283
MesosCheckEnd ==
  /\ m_pc = "end"
  /\ service_check_needed' = TRUE
  /\ m_pc' = "done"
  /\ UNCHANGED << m_leader, m_state_ok, m_service_checks, m_version, m_requests, m_error,
                  check_vars, req_vars, stub_vars >>

MesosEnded == m_pc \in {"done", "raised"}

\* the next run of check() on the same instance of the class
MesosNextRun ==
  /\ MesosEnded
  /\ m_pc' = "idle"
  /\ m_error' = ""
  /\ m_state_ok' = FALSE
  /\ m_service_checks' = <<>>
  /\ m_requests' = <<>>
  /\ UNCHANGED << service_check_needed, m_leader, m_version, check_vars, req_vars, stub_vars >>

\* line 23: the class attribute service_check_needed = True
InitMesos == Init /\ CheckIdle

NextMesos ==
  \/ MesosCheckBegin
  \/ GetMasterState
  \/ GetMasterStateOld
  \/ GetMasterRoles
  \/ GetMasterStats
  \/ MesosCheckEnd
  \/ MesosNextRun

SpecMesos == InitMesos /\ [][NextMesos]_vars

(***************************************************************************)
(* What the claims speak of                                                *)
(***************************************************************************)
Sources == {"zk", "kafka"}

SourceOffsets(src) == IF src = "zk" THEN zk_consumer_offsets ELSE kafka_consumer_offsets

Count(offsets) == Cardinality(DOMAIN offsets.map)

\* the tags a gauge of the triple k of source src carries
TagsOf(src, k) ==
  <<"topic:" \o k[2], "partition:" \o ToString(k[3]), "consumer_group:" \o k[1]>>
  \o instance.tags \o <<"source:" \o src>>

KeyOf(k) == k[1] \o ":" \o k[2] \o ":" \o ToString(k[3])

\* how many times the bag holds an element of S
CopiesOf(S, bag) == BagCardinality([x \in S \cap DOMAIN bag |-> bag[x]])

LagGaugesOf(src, k) ==
  { g \in DOMAIN gauges : g.name = "kafka.consumer_lag" /\ g.tags = TagsOf(src, k) }

EventsTagged(src, k) == { e \in DOMAIN events : e.tags = TagsOf(src, k) }

EventsKeyed(k) == { e \in DOMAIN events : e.aggregation_key = KeyOf(k) }

\* source src holds a committed offset for k, and the partition a highwater mark
Compared(src, k) ==
  /\ k \in DOMAIN SourceOffsets(src).map
  /\ <<k[2], k[3]>> \in DOMAIN highwater_offsets

LagOf(src, k) == highwater_offsets[<<k[2], k[3]>>] - SourceOffsets(src).map[k]

NegativeLag(src, k) == Compared(src, k) /\ LagOf(src, k) < 0

BothSources == instance.zk_connect_str /\ GetKafkaConsumerOffsets(instance)

OverBudget(src) == TruthyOffsets(SourceOffsets(src)) /\ Count(SourceOffsets(src)) > context_limit

NoOutput == gauges = EmptyBag /\ events = EmptyBag

NoHighwaterFetch == \A i \in 1..Len(netlog) : netlog[i] # "OffsetRequest"

\* the metadata knows no leader for tp
UnledInMetadata(tp) == tp \in DOMAIN leaders /\ ~HasLeader(leaders[tp])

\* the broker answered tp with error code c
Answered(tp, c) == tp \in DOMAIN responses /\ responses[tp] = c

\* an OffsetRequest failed, or an entry carried an error that is not handled
FetchBroken ==
  \/ \E tp \in DOMAIN responses : responses[tp] \notin {0, 3, 6}
  \/ \E i \in 1..Len(hw_requests) : ~(hw_requests[i].tps \subseteq DOMAIN responses)

GaugesOfPartition(tp, names) ==
  { g \in DOMAIN gauges : /\ g.name \in names
                          /\ g.tags[1] = "topic:" \o tp[1]
                          /\ g.tags[2] = "partition:" \o ToString(tp[2]) }

(***************************************************************************)
(* C1                                                                      *)
(***************************************************************************)
\* C1: when a cycle has reported, every committed offset C of either source on a
\* partition with recorded highwater mark H has exactly one consumer_lag gauge,
\* and its value is H - C, negative when C > H.
C1_LagIsHighwaterMinusOffset ==
  pc = "done" =>
    \A src \in Sources : \A k \in DOMAIN SourceOffsets(src).map :
      <<k[2], k[3]>> \in DOMAIN highwater_offsets =>
        /\ Cardinality(LagGaugesOf(src, k)) = 1
        /\ \A g \in LagGaugesOf(src, k) :
             /\ g.value = highwater_offsets[<<k[2], k[3]>>] - SourceOffsets(src).map[k]
             /\ CopiesIn(g, gauges) = 1

\* a cycle that reported a committed offset past the highwater mark
C1_Witness ==
  /\ pc = "done"
  /\ \E src \in Sources : \E k \in DOMAIN SourceOffsets(src).map :
       /\ NegativeLag(src, k)
       /\ \E g \in LagGaugesOf(src, k) : g.value < 0

(***************************************************************************)
(* C2                                                                      *)
(***************************************************************************)
\* C2 as claimed: when a cycle has reported, every triple with a negative lag has
\* exactly one event in the cycle, keyed group:topic:partition, of severity error,
\* tagged as the gauge, and its negative consumer_lag gauge.
C2_OneEventPerTriple ==
  pc = "done" =>
    \A k \in Triples :
      (\E src \in Sources : NegativeLag(src, k)) =>
        /\ CopiesOf(EventsKeyed(k), events) = 1
        /\ \A e \in EventsKeyed(k) :
             /\ e.alert_type = "error"
             /\ \E src \in Sources : NegativeLag(src, k) /\ e.tags = TagsOf(src, k)
        /\ \A src \in Sources : NegativeLag(src, k) =>
             \E g \in LagGaugesOf(src, k) : g.value = LagOf(src, k)

\* C2 as amended: when a cycle has reported, every source and triple with a
\* negative lag has exactly one event carrying the tags of that source's gauge,
\* keyed group:topic:partition, of severity error, and its negative consumer_lag
\* gauge; the events of a triple are as many as the sources whose lag for it is
\* negative, and there is no other event.
C2_OneEventPerSourceAndTriple ==
  pc = "done" =>
    /\ \A src \in Sources : \A k \in Triples :
         NegativeLag(src, k) =>
           /\ CopiesOf(EventsTagged(src, k), events) = 1
           /\ \A e \in EventsTagged(src, k) :
                /\ e.aggregation_key = KeyOf(k)
                /\ e.alert_type = "error"
           /\ \E g \in LagGaugesOf(src, k) : g.value = LagOf(src, k) /\ g.value < 0
    /\ \A k \in Triples :
         CopiesOf(EventsKeyed(k), events) = Cardinality({ src \in Sources : NegativeLag(src, k) })
    /\ \A e \in DOMAIN events :
         \E src \in Sources : \E k \in Triples : NegativeLag(src, k) /\ e.tags = TagsOf(src, k)

\* a cycle in which both sources report the same triple past the highwater mark
C2_Witness ==
  /\ pc = "done"
  /\ \E k \in Triples : NegativeLag("zk", k) /\ NegativeLag("kafka", k)

(***************************************************************************)
(* C3                                                                      *)
(***************************************************************************)
\* C3: a cycle in which the offsets collected from Zookeeper, or those collected
\* from Kafka, are more than the context limit ends without a gauge, without an
\* event and without a highwater fetch, and with a warning naming the count of a
\* collection over the limit.
C3_OverLimitAbortsWithWarning ==
  (Ended /\ \E src \in Sources : OverBudget(src)) =>
    /\ NoOutput
    /\ NoHighwaterFetch
    /\ \E i \in 1..Len(warnings) : \E src \in Sources :
         /\ OverBudget(src)
         /\ warnings[i] = " Discovered " \o ToString(Count(SourceOffsets(src)))
                          \o " partition contexts - this exceeds the maximum"

(***************************************************************************)
(* C4                                                                      *)
(***************************************************************************)
\* C4 as claimed: with both sources on and a count summed over both of the
\* context limit plus one, the cycle emits no gauge.
C4_SumOverBudgetEmitsNothing ==
  (/\ BothSources
   /\ Count(zk_consumer_offsets) + Count(kafka_consumer_offsets) = context_limit + 1)
    => gauges = EmptyBag

\* C4 as amended: with both sources on and the count of one source alone over the
\* context limit, the cycle emits no gauge and no event.
C4_OneSourceOverBudgetEmitsNothing ==
  (BothSources /\ \E src \in Sources : OverBudget(src)) => NoOutput

\* a cycle aborted with both sources on and limit + 1 offsets, all of one source
C4_Witness ==
  /\ pc = "aborted"
  /\ BothSources
  /\ Count(zk_consumer_offsets) + Count(kafka_consumer_offsets) = context_limit + 1
  /\ \E src \in Sources : OverBudget(src)

(***************************************************************************)
(* C5                                                                      *)
(***************************************************************************)
\* C5: in the network operations of a cycle nothing but highwater requests
\* follows a highwater request, and a highwater request is only sent once the
\* loop over the consumer groups of Kafka is over.
C5_HighwaterAfterDiscovery ==
  /\ \A i, j \in 1..Len(netlog) :
       (i < j /\ netlog[i] = "OffsetRequest") => netlog[j] = "OffsetRequest"
  /\ (\E i \in 1..Len(netlog) : netlog[i] = "OffsetRequest") =>
       /\ pc \in {"requests", "done", "failed"}
       /\ k_todo = {}

\* a cycle that read both sources, then the highwater marks, and reported a lag
C5_Witness ==
  /\ pc = "done"
  /\ \E i, j, l \in 1..Len(netlog) :
       netlog[i] = "zk" /\ netlog[j] = "OffsetFetchRequest" /\ netlog[l] = "OffsetRequest"
  /\ \E g \in DOMAIN gauges : g.name = "kafka.consumer_lag"

(***************************************************************************)
(* C6                                                                      *)
(***************************************************************************)
\* C6: once a highwater request failed or an entry came back with an error code
\* other than 0, 3 and 6, the cycle has ended in its handler: check() returned,
\* raised nothing and emitted no gauge and no event.
C6_BrokenFetchEmitsNothing ==
  FetchBroken => pc = "failed" /\ error = "" /\ NoOutput

\* a fetch that broke on the second broker after the first had answered
C6_Witness ==
  /\ pc = "failed"
  /\ Len(hw_requests) = 2
  /\ hw_requests[1].tps \subseteq DOMAIN responses
  /\ \A tp \in hw_requests[1].tps : responses[tp] = 0
  /\ DOMAIN highwater_offsets = hw_requests[1].tps

(***************************************************************************)
(* C7                                                                      *)
(***************************************************************************)
\* C7: a (topic, partition) without a leader in the metadata, or answered 'not
\* leader' (6) or 'unknown topic or partition' (3), is no key of the highwater
\* map and has no consumer_lag and no broker_offset gauge.
C7_LeaderlessHasNoHighwater ==
  \A tp \in TopicPartitions :
    (UnledInMetadata(tp) \/ Answered(tp, 6) \/ Answered(tp, 3)) =>
      /\ tp \notin DOMAIN highwater_offsets
      /\ GaugesOfPartition(tp, {"kafka.consumer_lag", "kafka.broker_offset"}) = {}

\* a cycle that reported one partition and skipped another, which has no leader
\* and a committed offset
C7_Witness ==
  /\ pc = "done"
  /\ \E tp, other \in TopicPartitions :
       /\ UnledInMetadata(tp) \/ Answered(tp, 6) \/ Answered(tp, 3)
       /\ \E src \in Sources : \E k \in DOMAIN SourceOffsets(src).map : <<k[2], k[3]>> = tp
       /\ GaugesOfPartition(other, {"kafka.broker_offset"}) # {}

(***************************************************************************)
(* C8                                                                      *)
(***************************************************************************)
\* C8: when _get_broker_offsets has returned, every (topic, partition) without a
\* leader in the metadata is in the returned list of topic partitions without a
\* leader and in no request.
C8_UnledRecordedAndNotRequested ==
  pc = "done" =>
    \A tp \in TopicPartitions :
      UnledInMetadata(tp) =>
        /\ tp \in topic_partitions_without_a_leader
        /\ \A i \in 1..Len(hw_requests) : tp \notin hw_requests[i].tps

(***************************************************************************)
(* C9                                                                      *)
(***************************************************************************)
\* C9 as claimed: while the fetch has not broken, an entry answered 'not leader'
\* (6) or 'unknown topic or partition' (3) is in the leaderless set and has no
\* highwater mark, and the entries answered without error have theirs.
C9_ErrorEntriesJoinLeaderless ==
  pc \in {"requests", "done"} =>
    \A tp \in DOMAIN responses :
      /\ responses[tp] \in {3, 6} =>
           tp \in topic_partitions_without_a_leader /\ tp \notin DOMAIN highwater_offsets
      /\ responses[tp] = 0 => tp \in DOMAIN highwater_offsets

\* C9 as amended: while the fetch has not broken, an entry answered 'not leader'
\* (6) is in the leaderless set, an entry answered 'unknown topic or partition'
\* (3) is not, neither has a highwater mark, and the entries answered without
\* error have theirs.
C9_OnlyNotLeaderJoinsLeaderless ==
  pc \in {"requests", "done"} =>
    \A tp \in DOMAIN responses :
      /\ responses[tp] = 6 => tp \in topic_partitions_without_a_leader
      /\ responses[tp] = 3 => tp \notin topic_partitions_without_a_leader
      /\ responses[tp] \in {3, 6} => tp \notin DOMAIN highwater_offsets
      /\ responses[tp] = 0 => tp \in DOMAIN highwater_offsets

\* a response with an 'unknown topic or partition' entry and an entry without
\* error, whose offset was recorded
C9_Witness ==
  /\ pc = "done"
  /\ \E i \in 1..Len(hw_requests) : \E tp, other \in hw_requests[i].tps :
       /\ Answered(tp, 3)
       /\ Answered(other, 0)
       /\ other \in DOMAIN highwater_offsets
       /\ tp \notin topic_partitions_without_a_leader

(***************************************************************************)
(* C10                                                                     *)
(***************************************************************************)
\* C10: no cycle ends in an exception while the loop over the consumer groups of
\* Kafka still has groups to process: a group whose fetch raised is logged and
\* the loop goes on.
C10_GroupFailureIsolated ==
  ~(pc = "raised" /\ k_todo # {})

(***************************************************************************)
(* C11                                                                     *)
(***************************************************************************)
\* the coordinator lookup of g answered without a coordinator
NoCoordinator(g) ==
  g \in DOMAIN k_lookups /\ ForCode(k_lookups[g].error_code) # "NoError"

\* the loop over the groups of Kafka is over
KafkaLoopOver == pc \notin {"idle", "zk", "zk_try", "zk_finally", "zk_return", "metadata", "kafka"}

\* every configured group was looked up and the offsets its fetch brought are
\* in the offsets Kafka discovery returned
AllGroupsLookedUp ==
  /\ kafka_consumer_offsets.kind = "dict"
  /\ DOMAIN consumer_groups.groups \subseteq DOMAIN k_lookups
  /\ \A h \in DOMAIN k_lookups : \A tp \in DOMAIN k_lookups[h].got :
       /\ <<h, tp[1], tp[2]>> \in DOMAIN kafka_consumer_offsets.map
       /\ kafka_consumer_offsets.map[<<h, tp[1], tp[2]>>] = k_lookups[h].got[tp]

\* C11: in a cycle that reads the offsets of Kafka, a group whose coordinator
\* lookup answers without a coordinator gets no OffsetFetchRequest and no
\* committed offset, no exception is raised, and once the loop over the groups
\* is over every configured group was looked up and its offsets are recorded.
C11_NoCoordinatorSkipsGroup ==
  \A g \in Groups :
    NoCoordinator(g) =>
      /\ ~k_lookups[g].fetch_sent
      /\ \A k \in DOMAIN k_offsets : k[1] # g
      /\ g \notin k_todo
      /\ pc # "raised"
      /\ KafkaLoopOver => AllGroupsLookedUp

(***************************************************************************)
(* C12                                                                     *)
(***************************************************************************)
\* the body of the try of _get_zk_consumer_offsets has run to its end
ZkBodyDone == pc = "zk_finally" /\ error = ""

\* the leaf of k as the tree of the call holds it
LeafOf(k) ==
  IF k \in ZkLeaves THEN zk_read.store.leaves[k] ELSE [state |-> "absent", value |-> 0]

\* the topology the call leaves in consumer_groups names the partition of k
Visited(k) ==
  /\ consumer_groups.kind = "dict"
  /\ k[1] \in DOMAIN consumer_groups.groups
  /\ consumer_groups.groups[k[1]].kind = "dict"
  /\ k[2] \in DOMAIN consumer_groups.groups[k[1]].topics
  /\ k[3] \in consumer_groups.groups[k[1]].topics[k[2]].parts

\* the call met a missing node: a partition it was to read has no leaf
MissingNodeMet == \E k \in Triples : Visited(k) /\ LeafOf(k).state = "absent"

\* C12: a call that meets missing nodes (and in which no read fails otherwise)
\* raises nothing, the leaves without a node bring no offset, and every visited
\* leaf that holds an integer has its offset in the result.
C12_MissingNodesAreSkipped ==
  (pc = "zk_finally" /\ zk_read.clean /\ MissingNodeMet) =>
    /\ error = ""
    /\ \A k \in Triples :
         /\ (Visited(k) /\ LeafOf(k).state = "ok") =>
              /\ k \in DOMAIN zk_consumer_offsets.map
              /\ zk_consumer_offsets.map[k] = LeafOf(k).value
         /\ LeafOf(k).state = "absent" => k \notin DOMAIN zk_consumer_offsets.map

(***************************************************************************)
(* C13                                                                     *)
(***************************************************************************)
\* C13: whatever the nodes hold (a partition child whose name is no integer, a
\* leaf whose data is no integer) and whichever read fails, the body of the try
\* ends without an exception, and the visited leaves that hold an integer and
\* were read have their offsets in the result.
C13_BadNodesAreSkipped ==
  pc = "zk_finally" =>
    /\ error = ""
    /\ zk_read.clean =>
         \A k \in Triples :
           (Visited(k) /\ LeafOf(k).state = "ok") =>
             /\ k \in DOMAIN zk_consumer_offsets.map
             /\ zk_consumer_offsets.map[k] = LeafOf(k).value

(***************************************************************************)
(* C14                                                                     *)
(***************************************************************************)
\* C14: when _get_zk_consumer_offsets is about to return or to let an exception
\* out, the connection it started is stopped and closed.
C14_ConnectionClosedOnEveryExit ==
  pc = "zk_return" => zk_conn = "closed"

(***************************************************************************)
(* C15                                                                     *)
(***************************************************************************)
\* the gauges of the triple k named name that carry the tags of source src
GaugesOf(name, src, k) ==
  { g \in DOMAIN gauges : g.name = name /\ g.tags = TagsOf(src, k) }

\* C15: in a cycle that reported, a triple with a committed offset in both
\* sources and a highwater mark has, for each source, exactly one consumer_offset
\* gauge and one consumer_lag gauge with the tags of that source, the first with
\* the offset of that source and the second with the highwater mark minus it.
C15_EachSourceReportsItsOwnValue ==
  pc = "done" =>
    \A k \in Triples :
      (Compared("zk", k) /\ Compared("kafka", k)) =>
        \A src \in Sources :
          /\ CopiesOf(GaugesOf("kafka.consumer_offset", src, k), gauges) = 1
          /\ CopiesOf(GaugesOf("kafka.consumer_lag", src, k), gauges) = 1
          /\ \A g \in GaugesOf("kafka.consumer_offset", src, k) :
               g.value = SourceOffsets(src).map[k]
          /\ \A g \in GaugesOf("kafka.consumer_lag", src, k) :
               g.value = highwater_offsets[<<k[2], k[3]>>] - SourceOffsets(src).map[k]

\* a reported cycle in which the two sources hold different offsets for a triple
C15_Witness ==
  /\ pc = "done"
  /\ \E k \in Triples :
       /\ Compared("zk", k) /\ Compared("kafka", k)
       /\ zk_consumer_offsets.map[k] # kafka_consumer_offsets.map[k]
       /\ GaugesOf("kafka.consumer_lag", "zk", k) # GaugesOf("kafka.consumer_lag", "kafka", k)

(***************************************************************************)
(* C16                                                                     *)
(***************************************************************************)
\* check() has called _get_broker_offsets(topics)
FetchCalled == pc \in {"requests", "done", "failed"}

\* topics, as passed to the fetch, names the partition tp
PassedToFetch(tp) == tp[1] \in DOMAIN topics /\ tp[2] \in topics[tp[1]]

\* C16: the topics check() passes to _get_broker_offsets hold every (topic,
\* partition) for which Zookeeper or Kafka recorded a committed offset in the
\* cycle.
C16_FetchCoversEveryCommittedOffset ==
  FetchCalled =>
    \A src \in Sources : \A k \in DOMAIN SourceOffsets(src).map :
      PassedToFetch(<<k[2], k[3]>>)

(***************************************************************************)
(* C17                                                                     *)
(***************************************************************************)
\* C17: no step of a cycle changes the consumer_groups the instance was
\* configured with: what is given as unspecified stays unspecified.
C17_SuppliedSpecUnchanged ==
  [][instance'.consumer_groups = instance.consumer_groups]_vars

(***************************************************************************)
(* C18                                                                     *)
(***************************************************************************)
\* the call before this one returned, no read of it failed, and the tree has
\* not been written since
PreviousCallReturned == zk_prev.known /\ zk_prev.returned /\ zk_prev.clean

\* the body of this call has run and no read of it failed
ZkBodyClean == pc = "zk_finally" /\ zk_read.clean

\* C18: a call of the Zookeeper discovery that follows a call that returned, on
\* the same instance and an unchanged tree, no read failing in either, returns
\* too, with the same consumer_groups topology and the same offsets.
C18_DiscoveryIsIdempotent ==
  (ZkBodyClean /\ PreviousCallReturned) =>
    /\ error = ""
    /\ zk_consumer_offsets = zk_prev.offsets
    /\ consumer_groups = zk_prev.groups

\* a second call on an instance whose consumer_groups the first call filled in,
\* with an offset read and a leaf without a node
C18_Witness ==
  /\ ZkBodyClean
  /\ PreviousCallReturned
  /\ instance.has_consumer_groups
  /\ zk_prev.groups.kind = "dict"
  /\ zk_prev.offsets.map # EmptyMap
  /\ \E k \in ZkLeaves : ~LeafExists(zk_read, k)

(***************************************************************************)
(* C19                                                                     *)
(***************************************************************************)
\* check() was left by the exception of a configuration that is not valid:
\* ConfigurationError of line 79, or the AssertionError of a group spec of the
\* wrong shape (lines 63 and 458-479)
ConfigurationRejected ==
  pc = "raised" /\ error \in {"ConfigurationError", "AssertionError"}

\* C19: when check() raises ConfigurationError (Kafka offsets wanted, no
\* Zookeeper, no consumer groups) or rejects the shape of consumer_groups, the
\* cycle has made no network call (no metadata refresh, no broker request, no
\* Zookeeper access) and has emitted nothing.
C19_RejectedBeforeAnyNetworkCall ==
  ConfigurationRejected => (netlog = <<>> /\ NoOutput)

(***************************************************************************)
(* C20                                                                     *)
(***************************************************************************)
\* the one consumer_offset gauge of source src for k, with the committed offset
OneOffsetGauge(src, k) ==
  /\ Cardinality(GaugesOf("kafka.consumer_offset", src, k)) = 1
  /\ \A g \in GaugesOf("kafka.consumer_offset", src, k) :
       /\ g.value = SourceOffsets(src).map[k]
       /\ CopiesIn(g, gauges) = 1

\* source src holds a committed offset for k and the partition has no highwater mark
Uncompared(src, k) ==
  /\ k \in DOMAIN SourceOffsets(src).map
  /\ <<k[2], k[3]>> \notin DOMAIN highwater_offsets

\* C20 as claimed: when a cycle has reported, every committed offset of each
\* source has one consumer_offset gauge with the offset and the tags topic,
\* partition, consumer group, custom tags and source, the partitions without a
\* highwater mark included.
C20_OffsetGaugeForEveryOffset ==
  pc = "done" =>
    \A src \in Sources : \A k \in DOMAIN SourceOffsets(src).map :
      OneOffsetGauge(src, k)

\* C20 as amended: when a cycle has reported, a committed offset of a source has
\* one consumer_offset gauge with the offset and the tags topic, partition,
\* consumer group, custom tags and source when its partition has a highwater
\* mark, and neither a consumer_offset nor a consumer_lag gauge when it has none.
C20_OffsetGaugeOnlyWithHighwater ==
  pc = "done" =>
    \A src \in Sources : \A k \in DOMAIN SourceOffsets(src).map :
      IF <<k[2], k[3]>> \in DOMAIN highwater_offsets
        THEN OneOffsetGauge(src, k)
        ELSE /\ GaugesOf("kafka.consumer_offset", src, k) = {}
             /\ GaugesOf("kafka.consumer_lag", src, k) = {}

\* a cycle that reported one committed offset and held back another of the
\* same source, whose partition has no highwater mark
C20_Witness ==
  /\ pc = "done"
  /\ \E src \in Sources : \E k, h \in DOMAIN SourceOffsets(src).map :
       /\ Compared(src, k)
       /\ OneOffsetGauge(src, k)
       /\ Uncompared(src, h)

(***************************************************************************)
(* C21                                                                     *)
(***************************************************************************)
\* the broker_offset gauges of the partition tp
BrokerGaugesOf(tp) ==
  { g \in DOMAIN gauges : g.name = "kafka.broker_offset"
                          /\ g.tags = BrokerTags(tp[1], tp[2], instance.tags) }

\* the accumulated set as _get_broker_offsets resolved it
Accumulated == DOMAIN leaders

\* a committed offset of some source on the partition tp
Consumed(tp) ==
  \E src \in Sources : \E k \in DOMAIN SourceOffsets(src).map : <<k[2], k[3]>> = tp

Phase ==
  CASE pc \in {"idle", "zk", "zk_try", "zk_finally", "zk_return", "metadata", "kafka",
               "fallback"} -> "DISCOVER"
    [] pc = "limit" -> "LIMIT-CHECK"
    [] pc \in {"highwater", "requests"} -> "FETCH-HIGHWATER"
    [] pc = "done" -> "DONE"
    [] pc = "aborted" -> "ABORTED"
    [] pc = "failed" -> "FAILED"
    [] pc = "raised" -> "RAISED"

\* the order of the states, the two early exits, and the start of the next cycle
PhaseSteps ==
  { <<"DISCOVER", "DISCOVER">>, <<"DISCOVER", "LIMIT-CHECK">>,
    <<"LIMIT-CHECK", "FETCH-HIGHWATER">>, <<"LIMIT-CHECK", "ABORTED">>,
    <<"FETCH-HIGHWATER", "FETCH-HIGHWATER">>, <<"FETCH-HIGHWATER", "DONE">>,
    <<"FETCH-HIGHWATER", "FAILED">> }
  \cup ({"DONE", "ABORTED", "FAILED", "RAISED"} \X {"DISCOVER"})

\* the cycle is given up for its configuration, which is no discovery failure
RejectsConfiguration ==
  Phase = "DISCOVER" /\ Phase' = "RAISED"
  /\ error' \in {"ConfigurationError", "AssertionError"}

\* the step keeps to the order of the states
InOrder == (<<Phase, Phase'>>) \in PhaseSteps

\* C23: a cycle goes from DISCOVER to LIMIT-CHECK, FETCH-HIGHWATER, COMPUTE-LAG
\* and DONE in this order, leaves this path only from LIMIT-CHECK to ABORTED and
\* from FETCH-HIGHWATER to FAILED (a configuration that is rejected aside), so no
\* failure of a discovery step ends it before LIMIT-CHECK; and it emits no gauge
\* and no event before the highwater fetch has succeeded.
C23_PhasesInOrder ==
  /\ [][InOrder \/ RejectsConfiguration]_vars
  /\ [](pc # "done" => NoOutput)

(***************************************************************************)
(* C24                                                                     *)
(***************************************************************************)
\* the pairs of the resolved set whose leader in the metadata is the broker n
LedBy(n) == { tp \in DOMAIN leaders : HasLeader(leaders[tp]) /\ leaders[tp].id = n }

\* the brokers that lead a pair of the resolved set
LeaderIds == { leaders[tp].id : tp \in { x \in DOMAIN leaders : HasLeader(leaders[x]) } }

\* the requests of the cycle that carry the pair tp
RequestsWith(tp) == { i \in 1..Len(hw_requests) : tp \in hw_requests[i].tps }

\* _get_broker_offsets has returned
FetchReturned == pc = "done"

\* C24: no broker gets more than one OffsetRequest in a cycle; every request goes
\* to a broker that leads a pair of the resolved set and carries exactly the
\* pairs that broker leads; and when _get_broker_offsets has returned, every
\* leader got its request, so each pair with a valid leader is in exactly one
\* request, the one to its leader.
C24_OneRequestPerLeader ==
  /\ \A i, j \in 1..Len(hw_requests) :
       hw_requests[i].node = hw_requests[j].node => i = j
  /\ \A i \in 1..Len(hw_requests) :
       /\ hw_requests[i].node \in LeaderIds
       /\ hw_requests[i].tps = LedBy(hw_requests[i].node)
  /\ FetchReturned =>
       /\ NodesRequested = LeaderIds
       /\ \A tp \in DOMAIN leaders :
            HasLeader(leaders[tp]) => Cardinality(RequestsWith(tp)) = 1

\* a fetch that returned after one request for two partitions of one leader
C24_Witness ==
  /\ FetchReturned
  /\ \E i \in 1..Len(hw_requests) : Cardinality(hw_requests[i].tps) = 2

(***************************************************************************)
(* C25                                                                     *)
(***************************************************************************)
\* the partitions of interest of the topics of ts: the listed ones, and all
\* those the cluster knows where none is listed (None or an empty list)
InterestOf(ts, known) ==
  { tp \in TopicPartitions :
      /\ tp[1] \in DOMAIN ts.topics
      /\ tp[2] \in (IF ts.topics[tp[1]].kind = "list" /\ ts.topics[tp[1]].parts # {}
                      THEN ts.topics[tp[1]].parts
                      ELSE known[tp[1]]) }

\* the topics dict _get_single_group_offsets_from_kafka got for the group g
PassedToSingleGroup(g) == consumer_groups.groups[g]

\* C25: for every group whose topics dict reaches the read of the offsets of
\* Kafka, the pairs the OffsetFetchRequest is built from are, per topic, the
\* listed partitions, or all partitions the cluster knows when the partitions
\* are None or an empty list.
C25_InterestIsListedOrKnown ==
  \A g \in DOMAIN k_interest :
    PassedToSingleGroup(g).kind = "dict" =>
      /\ ~k_interest[g].raised
      /\ k_interest[g].tps = InterestOf(PassedToSingleGroup(g), k_interest[g].known)

(***************************************************************************)
(* C26                                                                     *)
(***************************************************************************)
\* check() passes consumer_groups = None to _get_zk_consumer_offsets (lines 58-63)
NoGroupsSpecified ==
  instance.monitor_unlisted_consumer_groups \/ ~instance.has_consumer_groups

\* the leaves of the tree the call read that hold an integer
IntegerLeaves == { k \in ZkLeaves : zk_read.store.leaves[k].state = "ok" }

\* the call returns an offset for exactly the triples of S, the integer of each
ReturnsLeaves(S) ==
  /\ error = ""
  /\ zk_consumer_offsets.kind = "dict"
  /\ DOMAIN zk_consumer_offsets.map = S
  /\ \A k \in S : zk_consumer_offsets.map[k] = zk_read.store.leaves[k].value

\* the triples of group g and topic t among the triples of S
Under(S, g, t) == { k \in S : k[1] = g /\ k[2] = t }

\* C26: a call of the Zookeeper discovery none of whose reads failed returns,
\* when no groups are specified, an offset for exactly the leaves of the tree
\* that hold an integer, with that integer; and for a group and topic given with
\* a list of partitions that is not empty, an offset for exactly the listed
\* partitions whose leaf holds an integer, the list staying as given.
C26_ReturnsTheIntegerLeaves ==
  ZkBodyClean =>
    /\ NoGroupsSpecified => ReturnsLeaves(IntegerLeaves)
    /\ ~NoGroupsSpecified =>
         \A g \in DOMAIN instance.consumer_groups.groups :
           LET ts == instance.consumer_groups.groups[g] IN
           ts.kind = "dict" =>
             \A t \in DOMAIN ts.topics :
               TruthyParts(ts.topics[t]) =>
                 /\ error = ""
                 /\ consumer_groups.groups[g].topics[t] = ts.topics[t]
                 /\ zk_consumer_offsets.kind = "dict"
                 /\ Under(DOMAIN zk_consumer_offsets.map, g, t)
                      = { k \in Under(IntegerLeaves, g, t) : k[3] \in ts.topics[t].parts }

(***************************************************************************)
(* C27                                                                     *)
(***************************************************************************)
GaugesNamed(name) == { g \in DOMAIN gauges : g.name = name }

\* the gauges o and b are of the same topic and partition
SamePartition(o, b) == o.tags[1] = b.tags[1] /\ o.tags[2] = b.tags[2]

\* C27: every consumer_lag gauge of a cycle comes with a consumer_offset gauge
\* of the same tags and a broker_offset gauge of the same topic and partition,
\* emitted in the same cycle, and its value is the value of the broker_offset
\* gauge minus the value of the consumer_offset gauge.
C27_LagComesWithBothOffsets ==
  \A lag \in GaugesNamed("kafka.consumer_lag") :
    \E o \in GaugesNamed("kafka.consumer_offset") :
      \E b \in GaugesNamed("kafka.broker_offset") :
        /\ o.tags = lag.tags
        /\ SamePartition(lag, b)
        /\ lag.value = b.value - o.value

\* a cycle with the lag gauges of two groups on one partition, one of them negative
C27_Witness ==
  \E x, y \in GaugesNamed("kafka.consumer_lag") :
    /\ x.tags # y.tags
    /\ SamePartition(x, y)
    /\ x.value < 0

(***************************************************************************)
(* C28                                                                     *)
(***************************************************************************)
\* Kafka is the only source of the cycle
KafkaOnly == ~instance.zk_connect_str /\ GetKafkaConsumerOffsets(instance)

\* check() takes consumer_groups from the instance (lines 59-63)
SpecificationUsed ==
  instance.has_consumer_groups /\ ~instance.monitor_unlisted_consumer_groups

\* a request of an iteration of the loop over the groups failed
RequestFailed ==
  \E g \in DOMAIN k_interest : ~k_interest[g].raised /\ g \in k_todo

\* Kafka discovery recorded no offset and none of its requests failed
RecordsNoOffsets == k_offsets = EmptyMap /\ ~RequestFailed

\* the specification as configured, per topic the partitions listed for it in
\* any group; a group without topics brings none and None partitions no partition
ConfiguredTopics ==
  LET gs == instance.consumer_groups.groups
      withTopics == { g \in DOMAIN gs : gs[g].kind = "dict" }
      ts == UNION { DOMAIN gs[g].topics : g \in withTopics }
  IN [t \in ts |->
        UNION { gs[g].topics[t].parts :
                  g \in { h \in withTopics : t \in DOMAIN gs[h].topics
                                             /\ gs[h].topics[t].kind = "list" } }]

\* C28: with Kafka as the only source and a consumer_groups the validation
\* accepts, a cycle whose Kafka discovery records no offset and has no failed
\* request does not raise, and comes to the highwater fetch with the topics and
\* partitions of the configured specification.
C28_FallbackFromSpecification ==
  (KafkaOnly /\ SpecificationUsed /\ RecordsNoOffsets) =>
    /\ pc = "raised" => error = "AssertionError"
    /\ pc \in {"limit", "highwater"} => topics = ConfiguredTopics

(***************************************************************************)
(* C29                                                                     *)
(***************************************************************************)
\* line 171 is reached from line 166 with ready(node_id) true only
SendsWhenReady == blocking'.phase = "sent" => blocking.phase = "ready"

\* a call returns from line 172 only, after its request was sent
ReturnsAfterSent == blocking'.returned > blocking.returned => blocking.phase = "sent"

\* while the node is not ready the loop of lines 166-169 stays where it is
PollsOn == Poll => blocking'.phase = "polling"

\* C29: when every node polled gets ready and every request sent completes,
\* every cycle of check() ends (done, aborted, failed or raised); the request
\* of _make_blocking_req is sent only once the node is ready, a poll of a
\* node that is not ready leaves the call in its loop, and the call returns
\* only after its request was sent
C29_CyclesEnd ==
  /\ (~Ended) ~> Ended
  /\ [][SendsWhenReady /\ ReturnsAfterSent /\ PollsOn]_vars

\* a cycle ended whose last call of _make_blocking_req polled a node not ready
C29_Witness == pc = "done" /\ blocking.polled /\ Len(netlog) >= 3

(***************************************************************************)
(* C22                                                                     *)
(***************************************************************************)
\* every name submitted since the last reset was named in an assert call
AllSubmittedAsserted == DOMAIN metrics \subseteq asserted

\* the call of an assert method leaves the recorded metrics as they are
AssertsKeepMetrics ==
  stub_call'.name \notin {"submit_metric", "reset"} => metrics' = metrics

\* C22: assert_all_metrics_covered succeeds exactly when every metric name
\* submitted since the last reset was named in an assert call, whatever was
\* asserted on names never submitted and also when nothing was submitted; the
\* assert calls never add or remove a recorded metric
C22_CoveredIffAllSubmittedAsserted ==
  /\ [](stub_call.name = "assert_all_metrics_covered"
          => (~stub_call.raised <=> AllSubmittedAsserted))
  /\ [][AssertsKeepMetrics]_vars

(***************************************************************************)
(* C30                                                                     *)
(***************************************************************************)
\* the run is past its state request, which a state endpoint answered with 200
StateAnswered == m_state_ok /\ m_pc \notin {"state", "state.json"}

\* C30: over the runs of MesosMaster.check, however the runs before ended,
\* a run whose state endpoint answered 200 emits exactly one service check
\* mesos_master.can_connect, with status OK; no run emits more than one
C30_OneServiceCheckPerRun ==
  /\ StateAnswered => m_service_checks = <<"OK">>
  /\ Len(m_service_checks) <= 1

====
